---- MODULE Spec2Model ----
(***************************************************************************)
(* Model of the logarithmic grid strategy (aster_log_grid_strategy.py):    *)
(* the grid level calculation, done in 28-digit decimal arithmetic as      *)
(* Python's decimal module does it, and the grid maintenance loop that     *)
(* reconciles the open orders of the exchange with the grid levels.        *)
(*                                                                         *)
(* Prices held in the state are integers counting price units of           *)
(* 10^-(PRICE_EXP + SubTick): with SubTick = 1 a price of 0.0003 is 30     *)
(* units, and one tick (PRICE_PRECISION) is 10 units.                      *)
(***************************************************************************)
EXTENDS Integers, Sequences, FiniteSets, Bags, TLC

(***************************************************************************)
(* Program constants.                                                      *)
(***************************************************************************)
\* PRICE_PRECISION = Decimal('0.0001'): the number of decimal places
PRICE_EXP == 4
\* QUANTITY_PRECISION = Decimal('1'): the number of decimal places
QUANTITY_EXP == 0
\* ORDER_QTY_PER_GRID
ORDER_QTY_PER_GRID == 10
\* the precision (significant digits) of the decimal module's default context
DECIMAL_PREC == 28

(***************************************************************************)
(* Bounds of the model.                                                    *)
(***************************************************************************)
\* decimal places of a model price below the price precision
SubTick == 1
\* the largest price, in ticks, of the small grid configurations
MaxTick == 5
\* the largest num_grids of the small grid configurations
MaxGrids == 3
\* decimal places of a model quantity below the quantity precision
SubQty == 1

(***************************************************************************)
(* Natural numbers of any size: little-endian sequences of limbs in        *)
(* 0..BASE-1 without leading zero limbs (TLC's integers have 32 bits, the  *)
(* coefficients of decimal.Decimal are unbounded).  A value that is used   *)
(* more than once is a parameter of a helper operator.                     *)
(***************************************************************************)
RECURSIVE Pow10(_)
Pow10(k) == IF k = 0 THEN 1 ELSE 10 * Pow10(k - 1)

\* decimal digits held by one limb
LimbDigits == 4

BASE == Pow10(LimbDigits)

Zeros(q) == [i \in 1..q |-> 0]

RECURSIVE BNorm(_)
BNorm(a) ==
    IF Len(a) > 0 /\ a[Len(a)] = 0 THEN BNorm(SubSeq(a, 1, Len(a) - 1)) ELSE a

RECURSIVE BFromNat(_)
BFromNat(n) == IF n = 0 THEN <<>> ELSE <<n % BASE>> \o BFromNat(n \div BASE)

RECURSIVE BToNat(_)
BToNat(a) == IF Len(a) = 0 THEN 0 ELSE a[1] + BASE * BToNat(Tail(a))

RECURSIVE NatDigits(_)
NatDigits(n) == IF n = 0 THEN 0 ELSE 1 + NatDigits(n \div 10)

\* the number of decimal digits of a
BDigits(a) ==
    IF Len(a) = 0 THEN 0 ELSE LimbDigits * (Len(a) - 1) + NatDigits(a[Len(a)])

\* -1, 0 or 1 as a < b, a = b or a > b at the highest of the limbs in differ
BCmpAt(a, b, differ) ==
    IF differ = {} THEN 0
    ELSE IF \E i \in differ : a[i] < b[i] /\ \A j \in differ : j <= i THEN -1
    ELSE 1

\* -1, 0 or 1 as a < b, a = b or a > b
BCmp(a, b) ==
    IF Len(a) < Len(b) THEN -1
    ELSE IF Len(a) > Len(b) THEN 1
    ELSE BCmpAt(a, b, {i \in 1..Len(a) : a[i] # b[i]})

RECURSIVE BIncFrom(_, _)
BIncFrom(a, i) ==
    IF i > Len(a) THEN Append(a, 1)
    ELSE IF a[i] = BASE - 1 THEN BIncFrom([a EXCEPT ![i] = 0], i + 1)
    ELSE [a EXCEPT ![i] = a[i] + 1]

\* a + 1
BInc(a) == BIncFrom(a, 1)

Limb(a, i) == IF i <= Len(a) THEN a[i] ELSE 0

RECURSIVE BAddFrom(_, _, _, _)
BAddFrom(a, b, i, carry) ==
    IF i > Len(a) /\ i > Len(b) THEN BFromNat(carry)
    ELSE LET s == Limb(a, i) + Limb(b, i) + carry
         IN  <<s % BASE>> \o BAddFrom(a, b, i + 1, s \div BASE)

\* a + b
BAdd(a, b) == BAddFrom(a, b, 1, 0)

RECURSIVE BSubFrom(_, _, _, _)
BSubFrom(a, b, i, borrow) ==
    IF i > Len(a) THEN <<>>
    ELSE LET s == a[i] - Limb(b, i) - borrow
         IN  <<(s + BASE) % BASE>> \o BSubFrom(a, b, i + 1, IF s < 0 THEN 1 ELSE 0)

\* a - b for a >= b
BSub(a, b) == BNorm(BSubFrom(a, b, 1, 0))

\* b - a as an integer, for a and b close to each other
BDiff(a, b) ==
    IF BCmp(a, b) <= 0 THEN BToNat(BSub(b, a)) ELSE 0 - BToNat(BSub(a, b))

RECURSIVE BMulSmallFrom(_, _, _, _)
BMulSmallFrom(a, k, i, carry) ==
    IF i > Len(a) THEN BFromNat(carry)
    ELSE LET s == a[i] * k + carry
         IN  <<s % BASE>> \o BMulSmallFrom(a, k, i + 1, s \div BASE)

\* a * k for 0 <= k <= BASE
BMulSmall(a, k) == IF k = 0 THEN <<>> ELSE BMulSmallFrom(a, k, 1, 0)

RECURSIVE BColumn(_, _, _, _)
\* the sum of a[j] * b[k + 1 - j] for j from i up
BColumn(a, b, k, i) ==
    IF i > Len(a) \/ i > k THEN 0
    ELSE a[i] * b[k + 1 - i] + BColumn(a, b, k, i + 1)

\* the columns of the product of a and b
BColumns(a, b) ==
    [k \in 1..(Len(a) + Len(b) - 1) |->
        BColumn(a, b, k, IF k + 1 - Len(b) > 1 THEN k + 1 - Len(b) ELSE 1)]

BCarryCat(left, right) ==
    [limbs |-> left.limbs \o right.limbs, carry |-> right.carry]

RECURSIVE BCarry(_, _, _, _)
\* the limbs of the columns lo..hi and the carry out of them, by halves
BCarry(cols, lo, hi, carry) ==
    IF lo = hi
    THEN [limbs |-> <<(cols[lo] + carry) % BASE>>,
          carry |-> (cols[lo] + carry) \div BASE]
    ELSE LET left == BCarry(cols, lo, (lo + hi) \div 2, carry)
         IN  BCarryCat(left,
                       BCarry(cols, (lo + hi) \div 2 + 1, hi, left.carry))

BCarried(r) == r.limbs \o BFromNat(r.carry)

\* a * b, a the shorter operand (a column of at most 20 limb products)
BMul(a, b) ==
    IF Len(a) = 0 \/ Len(b) = 0 THEN <<>>
    ELSE BCarried(BCarry(BColumns(a, b), 1, Len(a) + Len(b) - 1, 0))

RECURSIVE BPow(_, _)
BPow(a, n) == IF n = 0 THEN <<1>> ELSE BMul(a, BPow(a, n - 1))

\* a * 10^k
BShiftLeft(a, k) ==
    IF Len(a) = 0 THEN <<>>
    ELSE Zeros(k \div LimbDigits) \o BMulSmall(a, Pow10(k % LimbDigits))

\* the division of the limbs below extended by the limb whose quotient is digit
DivStep(rest, digit) == [q |-> Append(rest.q, digit), r |-> rest.r]

RECURSIVE BDivSmallFrom(_, _, _, _)
BDivSmallFrom(a, k, i, rem) ==
    IF i = 0 THEN [q |-> <<>>, r |-> rem]
    ELSE DivStep(BDivSmallFrom(a, k, i - 1, (rem * BASE + a[i]) % k),
                 (rem * BASE + a[i]) \div k)

DivNorm(d) == [q |-> BNorm(d.q), r |-> d.r]

\* quotient q and remainder r of a by k, for 0 < k < 200000
BDivSmall(a, k) == DivNorm(BDivSmallFrom(a, k, Len(a), 0))

AllZero(a) == \A i \in 1..Len(a) : a[i] = 0

\* the n lowest limbs of a
LowLimbs(a, n) == SubSeq(a, 1, IF n < Len(a) THEN n ELSE Len(a))

\* the split of a at nl limbs and nd digits, d the division of the limbs
\* above nl by 10^nd
SplitAt(a, nl, nd, d) ==
    LET h    == IF nd >= 1 THEN 5 * Pow10(nd - 1) ELSE BASE \div 2
        lead == IF nd >= 1 THEN d.r
                ELSE IF nl >= 1 /\ nl <= Len(a) THEN a[nl] ELSE 0
    IN  [q    |-> d.q,
         half |-> IF nl = 0 /\ nd = 0 THEN -1
                  ELSE IF lead > h THEN 1
                  ELSE IF lead < h THEN -1
                  ELSE IF AllZero(LowLimbs(a, IF nd >= 1 THEN nl ELSE nl - 1))
                       THEN 0 ELSE 1,
         zero |-> d.r = 0 /\ AllZero(LowLimbs(a, nl))]

\* a split at its k-th decimal digit: q = a div 10^k; half = -1, 0 or 1 as
\* the remainder is below, at or above 10^k / 2; zero: no remainder
BSplit(a, k) ==
    SplitAt(a, k \div LimbDigits, k % LimbDigits,
            BDivSmall(SubSeq(a, k \div LimbDigits + 1, Len(a)),
                      Pow10(k % LimbDigits)))

RECURSIVE LimbSearch(_, _, _, _, _, _)
\* the largest v in lo..hi with (c with limb pos set to v)^n <= X
LimbSearch(c, pos, lo, hi, n, X) ==
    IF lo = hi THEN lo
    ELSE LET mid == (lo + hi + 1) \div 2
         IN  IF BCmp(BPow(BNorm([c EXCEPT ![pos] = mid]), n), X) <= 0
             THEN LimbSearch(c, pos, mid, hi, n, X)
             ELSE LimbSearch(c, pos, lo, mid - 1, n, X)

RECURSIVE BRootFrom(_, _, _, _)
BRootFrom(c, pos, n, X) ==
    IF pos = 0 THEN BNorm(c)
    ELSE BRootFrom([c EXCEPT ![pos] = LimbSearch(c, pos, 0, BASE - 1, n, X)],
                   pos - 1, n, X)

\* the floor of the n-th root of X, n >= 1
BRoot(X, n) ==
    LET nl == (Len(X) + n - 1) \div n
    IN  BRootFrom(Zeros(nl), nl, n, X)

Abs(x) == IF x < 0 THEN 0 - x ELSE x

RECURSIVE GCD(_, _)
GCD(a, b) == IF b = 0 THEN a ELSE GCD(b, a % b)

(***************************************************************************)
(* decimal.Decimal: a positive value is [c |-> coefficient, e |-> exponent]*)
(* and stands for c * 10^e.  Every arithmetic result is rounded to         *)
(* DECIMAL_PREC significant digits, ties to even (the default context).    *)
(***************************************************************************)
UnitExp == PRICE_EXP + SubTick

\* model price units in one tick (PRICE_PRECISION)
UnitsPerTick == Pow10(SubTick)

IsOdd(a) == Len(a) > 0 /\ a[1] % 2 = 1

\* ROUND_HALF_EVEN of the split s
HalfEven(s, sticky) ==
    IF s.half = 1 \/ (s.half = 0 /\ (sticky \/ IsOdd(s.q))) THEN BInc(s.q)
    ELSE s.q

\* the rounded coefficient q at exponent e, brought back to prec digits when
\* the rounding carried into one digit more
Renormalized(q, e, prec) ==
    IF BDigits(q) > prec THEN [c |-> BDivSmall(q, 10).q, e |-> e + 1]
    ELSE [c |-> q, e |-> e]

\* c * 10^e, plus a little when sticky, rounded to prec significant digits
DRoundTo(c, e, sticky, prec) ==
    IF BDigits(c) <= prec THEN [c |-> c, e |-> e]
    ELSE Renormalized(HalfEven(BSplit(c, BDigits(c) - prec), sticky),
                      e + BDigits(c) - prec, prec)

\* the rounding of the default context
DRound(c, e, sticky) == DRoundTo(c, e, sticky, DECIMAL_PREC)

\* Decimal(str(p)) of a price of p units
DFromUnits(p) == [c |-> BFromNat(p), e |-> 0 - UnitExp]

\* the quotient d, taken to s decimal places, rounded
DRoundQuotient(d, s) == DRound(d.q, 0 - s, d.r # 0)

\* u / l for coprime integers u, l > 0
DDivCoprime(u, l, s) ==
    DRoundQuotient(BDivSmall(BShiftLeft(BFromNat(u), s), l), s)

\* u / l for integers u, l > 0
DDivBy(u, l, g) ==
    DDivCoprime(u \div g, l \div g, DECIMAL_PREC + 1 + NatDigits(l \div g))

DDiv(u, l) == DDivBy(u, l, GCD(u, l))

\* the leading digits of a coefficient, as an integer of exactly `digits` digits
Leading(c, digits) ==
    IF BDigits(c) >= digits THEN BToNat(BSplit(c, BDigits(c) - digits).q)
    ELSE BToNat(c) * Pow10(digits - BDigits(c))

\* 10000 * ln(m / 10000) for 10000 <= m < 20000, by the series of
\* ln((1 + z) / (1 - z)), z = (m - 1) / (m + 1)
LnMantissa(m) ==
    LET z  == ((m - BASE) * BASE) \div (m + BASE)
        z2 == (z * z) \div BASE
        z3 == (z * z2) \div BASE
        z5 == (z3 * z2) \div BASE
        z7 == (z5 * z2) \div BASE
        z9 == (z7 * z2) \div BASE
    IN  2 * (z + z3 \div 3 + z5 \div 5 + z7 \div 7 + z9 \div 9)

RECURSIVE LnReduce(_)
\* 10000 * ln(m / 10000) for m >= 10000
LnReduce(m) ==
    IF m >= 2 * BASE THEN 6931 + LnReduce(m \div 2) ELSE LnMantissa(m)

\* 10000 * ln(x), to about four digits, for x >= 1
LnScaled(x) ==
    LnReduce(Leading(x.c, LimbDigits + 1)) + 23026 * (x.e + BDigits(x.c) - 1)

\* 10^(-y.e) - n * y.c for y = Decimal(1) / Decimal(n): n times what the
\* rounded quotient y falls short of 1/n, in units of 10^y.e
ExponentDeficit(y, n) == BDiff(BMulSmall(y.c, n), BShiftLeft(<<1>>, 0 - y.e))

\* decimal places the root is taken to before it is rounded
RootPlaces == DECIMAL_PREC + 1 + LimbDigits

\* part * 10^sh
Scaled(part, sh) ==
    IF sh >= 0 THEN part * Pow10(sh) ELSE part \div Pow10(0 - sh)

\* R * t * 10^ye * lnx / (10000 * n): what the deficit t of the exponent
\* takes from the root R
RootAdjust(R, lnx, n, t, ye) ==
    BFromNat(Scaled(((Leading(R, LimbDigits) * lnx) \div n) * Abs(t),
                    BDigits(R) - 2 * LimbDigits + ye))

\* the root R of X with the deficit t of the exponent taken off, rounded
RootRounded(X, R, n, t, adj) ==
    DRound(IF t = 0 THEN R ELSE IF t > 0 THEN BSub(R, adj) ELSE BAdd(R, adj),
           0 - RootPlaces, t # 0 \/ BCmp(BPow(R, n), X) # 0)

RootOf(x, n, y, t, X, R) ==
    RootRounded(X, R, n, t, RootAdjust(R, LnScaled(x), n, t, y.e))

RootAt(x, n, y, X) == RootOf(x, n, y, ExponentDeficit(y, n), X, BRoot(X, n))

\* x ** y for x >= 1 and y = Decimal(1) / Decimal(str(n)), n >= 1: the power
\* x^y, rounded once, of the rounded exponent y = 1/n - t * 10^y.e / n.
\* It is the n-th root of x, less the part root * t * 10^y.e * ln(x) / n
\* that the exponent's rounding takes away.
DRootPow(x, n, y) == RootAt(x, n, y, BShiftLeft(x.c, x.e + n * RootPlaces))

\* a * b rounded to prec digits, a the operand of the shorter coefficient
DMulTo(a, b, prec) == DRoundTo(BMul(a.c, b.c), a.e + b.e, FALSE, prec)

\* sq, the square of the running result, times base when the bit is set
PowStep(sq, base, set, prec) == IF set THEN DMulTo(base, sq, prec) ELSE sq

RECURSIVE PowBits(_, _, _, _, _)
\* square and multiply over the bits of i from bit down, from the highest
PowBits(result, base, i, bit, prec) ==
    IF bit = 0 THEN result
    ELSE PowBits(PowStep(DMulTo(result, result, prec), base,
                         (i \div bit) % 2 = 1, prec),
                 base, i, bit \div 2, prec)

RECURSIVE TopBit(_)
TopBit(i) == IF i <= 1 THEN i ELSE 2 * TopBit(i \div 2)

\* w rounded to the context precision
DPlus(w) == DRound(w.c, w.e, FALSE)

\* r ** Decimal(str(i)) for an integer i >= 0: squarings and multiplications
\* rounded to NatDigits(i) + 2 digits more than the context precision; the
\* result is then rounded to the context precision
DPow(r, i) ==
    IF i = 0 THEN [c |-> <<1>>, e |-> 0]
    ELSE DPlus(PowBits(r, r, i, TopBit(i) \div 2,
                       DECIMAL_PREC + NatDigits(i) + 2))

\* a * b, a the operand of the shorter coefficient
DMul(a, b) == DRound(BMul(a.c, b.c), a.e + b.e, FALSE)

\* the coefficient of the split s rounded as rounding says
QuantizeSplit(s, rounding) ==
    CASE rounding = "ROUND_DOWN" -> BToNat(s.q)
      [] rounding = "ROUND_HALF_EVEN" -> BToNat(HalfEven(s, FALSE))
      [] rounding = "ROUND_HALF_UP" ->
             BToNat(IF s.half >= 0 THEN BInc(s.q) ELSE s.q)

\* d.quantize(Decimal(10) ** -places, rounding): the coefficient of the
\* result, whose exponent is -places
DQuantize(d, places, rounding) ==
    IF d.e + places >= 0 THEN BToNat(BShiftLeft(d.c, d.e + places))
    ELSE QuantizeSplit(BSplit(d.c, 0 - (d.e + places)), rounding)

\* the prices about the grid of the script's model, in units
ModelPrices == 0..(2 * MaxTick * UnitsPerTick)

\* the rounding modes the scripts quantize with
Roundings == {"ROUND_DOWN", "ROUND_HALF_EVEN"}

\* p.quantize(PRICE_PRECISION, rounding) for every price of the model,
\* worked out once
QuantizedPrice ==
    [p \in ModelPrices, rounding \in Roundings |->
        DQuantize(DFromUnits(p), PRICE_EXP, rounding) * UnitsPerTick]

\* p.quantize(PRICE_PRECISION, rounding) of a price of p units, in units
QuantizePrice(p, rounding) ==
    IF p \in ModelPrices THEN QuantizedPrice[p, rounding]
    ELSE DQuantize(DFromUnits(p), PRICE_EXP, rounding) * UnitsPerTick

(***************************************************************************)
(* calculate_grid_levels                                                   *)
(***************************************************************************)
\* ratio = (upper_price / lower_price) ** (Decimal(1) / Decimal(str(num_grids)))
GridRatio(upper_price, lower_price, num_grids) ==
    DRootPow(DDiv(upper_price, lower_price), num_grids, DDiv(1, num_grids))

\* [lower_price * (ratio ** Decimal(str(i))) for i in range(num_grids + 1)]
LevelsOf(lower_price, ratio, num_grids) ==
    [j \in 1..(num_grids + 1) |->
        DMul(DFromUnits(lower_price), DPow(ratio, j - 1))]

\* levels
RawLevels(upper_price, lower_price, num_grids) ==
    LevelsOf(lower_price, GridRatio(upper_price, lower_price, num_grids),
             num_grids)

\* a formatting of a level that rounds to the nearest tick instead of down
FormatLevelNearest(lvl) ==
    DQuantize(lvl, PRICE_EXP, "ROUND_HALF_EVEN") * UnitsPerTick

\* a formatting of a level that keeps the places below the tick
FormatLevelFine(lvl) == DQuantize(lvl, UnitExp, "ROUND_DOWN")

\* lvl.quantize(PRICE_PRECISION, rounding=decimal.ROUND_DOWN), in units
FormatLevel(lvl) == DQuantize(lvl, PRICE_EXP, "ROUND_DOWN") * UnitsPerTick

\* formatted_levels
FormattedLevels(levels) == [j \in 1..Len(levels) |-> FormatLevel(levels[j])]

RECURSIVE InsertDesc(_, _)
InsertDesc(s, x) ==
    IF Len(s) = 0 THEN <<x>>
    ELSE IF x > s[1] THEN <<x>> \o s
    ELSE <<s[1]>> \o InsertDesc(Tail(s), x)

RECURSIVE SortedDesc(_)
\* sorted(s, reverse=True)
SortedDesc(s) ==
    IF Len(s) = 0 THEN <<>>
    ELSE InsertDesc(SortedDesc(SubSeq(s, 1, Len(s) - 1)), s[Len(s)])

\* tolerance = PRICE_PRECISION / 2
Tolerance == UnitsPerTick \div 2

\* whether temp_sorted[i] is appended to unique_levels
KeepsLevel(temp_sorted, i) ==
    Abs(temp_sorted[i] - temp_sorted[i - 1]) > Tolerance

RECURSIVE UniqueFrom(_, _, _)
UniqueFrom(temp_sorted, i, unique_levels) ==
    IF i > Len(temp_sorted) THEN unique_levels
    ELSE UniqueFrom(temp_sorted, i + 1,
                    IF KeepsLevel(temp_sorted, i)
                    THEN Append(unique_levels, temp_sorted[i])
                    ELSE unique_levels)

\* unique_levels of the sorted formatted levels
UniqueSorted(temp_sorted) ==
    IF Len(temp_sorted) = 0 THEN <<>>
    ELSE UniqueFrom(temp_sorted, 2, <<temp_sorted[1]>>)

\* unique_levels of the formatted levels
UniqueLevels(formatted_levels) == UniqueSorted(SortedDesc(formatted_levels))

\* parameter checks that let a grid of equal bounds pass
InvalidGridStrict(upper_price, lower_price, num_grids) ==
    \/ upper_price < lower_price \/ num_grids < 1
    \/ lower_price <= 0

\* the parameter checks that make calculate_grid_levels return []
InvalidGrid(upper_price, lower_price, num_grids) ==
    \/ upper_price <= lower_price \/ num_grids < 1
    \/ lower_price <= 0

\* a warning for any merged level
MergedWarningAny(unique_levels, num_grids) ==
    Len(unique_levels) < num_grids + 1

\* the warning of too many merged levels
MergedWarning(unique_levels, num_grids) == Len(unique_levels) < num_grids

\* the outcome of a call that passed the parameter checks
GridResult(formatted_levels, unique_levels, num_grids) ==
    [error |-> FALSE, formatted_levels |-> formatted_levels,
     levels |-> unique_levels,
     warning |-> MergedWarning(unique_levels, num_grids)]

GridFormatted(formatted_levels, num_grids) ==
    GridResult(formatted_levels, UniqueLevels(formatted_levels), num_grids)

\* what a call of calculate_grid_levels computes: the formatted levels, the
\* returned levels and whether the warning is printed
GridCalculation(upper_price, lower_price, num_grids) ==
    IF InvalidGrid(upper_price, lower_price, num_grids)
    THEN [error |-> TRUE, formatted_levels |-> <<>>, levels |-> <<>>,
          warning |-> FALSE]
    ELSE GridFormatted(
             FormattedLevels(RawLevels(upper_price, lower_price, num_grids)),
             num_grids)

calculate_grid_levels(upper_price, lower_price, num_grids) ==
    GridCalculation(upper_price, lower_price, num_grids).levels

(***************************************************************************)
(* The state.                                                              *)
(***************************************************************************)
VARIABLES
    calc,               \* a call of calculate_grid_levels: arguments, result
    rec,                \* the level loop run on a given price, levels, orders
    ord,                \* a call of place_limit_order: arguments, request
    raw,                \* a price, as a level and as an open order's price
    vol,                \* the wash-trading script (aster_volume_strategy.py)
    bac,                \* the place-and-cancel script
    req,                \* a call of make_signed_request: arguments, outcome
    cfg,                \* UPPER_PRICE, LOWER_PRICE, NUM_GRIDS of the script
    pc,                 \* where the grid script is
    grid_levels,        \* grid_levels
    status,             \* how far the current tick got
    current_price,      \* current_price (NoPrice: not fetched)
    open_orders_list,   \* open_orders_list: the snapshot, a bag of orders
    open_order_prices,  \* open_order_prices
    fetched,            \* what get_open_orders gave the current tick
    idx,                \* the position of the level loop in grid_levels
    attempts,           \* the place_limit_order calls of the current tick
    placed_orders_this_cycle,
    book,               \* the exchange: the open orders of the account
    sent,               \* the kinds of request the script has sent
    ref                 \* history: an earlier tick that ran to its end

tick == <<status, current_price, open_orders_list, open_order_prices, fetched,
          idx, attempts, placed_orders_this_cycle>>

vars == <<calc, rec, ord, raw, vol, bac, req, cfg, pc, grid_levels, tick, book, sent,
          ref>>

(***************************************************************************)
(* The grid maintenance logic of one level (lines 319-350).                *)
(***************************************************************************)
\* a choice of branch that takes the sell branch for a level at the price
LevelSideInclusive(level_price, price) ==
    IF level_price < price THEN "BUY" ELSE "SELL"

\* a choice of branch that buys above the price and sells below it
LevelSideReversed(level_price, price) ==
    IF level_price > price THEN "BUY"
    ELSE IF level_price < price THEN "SELL"
    ELSE "NONE"

\* the side of the branch the loop body takes for a level
LevelSide(level_price, price) ==
    IF level_price < price THEN "BUY"
    ELSE IF level_price > price THEN "SELL"
    ELSE "NONE"

\* level_quantized = level_price.quantize(PRICE_PRECISION)
LevelQuantized(level_price) == QuantizePrice(level_price, "ROUND_HALF_EVEN")

\* a lookup that reads the sell prices on both branches
MissingSell(level_quantized, side, prices) ==
    level_quantized \notin prices["SELL"]

\* a lookup that reads the buy prices on both branches
MissingBuy(level_quantized, side, prices) ==
    level_quantized \notin prices["BUY"]

\* a lookup that remembers, across ticks, that an order request was sent
MissingAndNeverSent(level_quantized, side, prices) ==
    level_quantized \notin prices[side] /\ "order" \notin sent

\* a lookup for which an open order of either side covers the level
MissingOnBothSides(level_quantized, side, prices) ==
    level_quantized \notin (prices["BUY"] \cup prices["SELL"])

\* level_quantized not in open_order_prices[side]
MissingOrder(level_quantized, side, prices) == level_quantized \notin prices[side]

\* formatted_price of place_limit_order
FormattedPrice(price) == QuantizePrice(price, "ROUND_DOWN")

\* model quantity units in one unit of the quantity precision
UnitsPerQty == Pow10(SubQty)

\* the Decimal of a quantity of q units
DFromQty(q) == [c |-> BFromNat(q), e |-> 0 - (QUANTITY_EXP + SubQty)]

\* a formatting of the quantity that rounds to the nearest step
FormattedQuantityNearest(quantity) ==
    DQuantize(DFromQty(quantity), QUANTITY_EXP, "ROUND_HALF_EVEN")

\* the quantities of the model, in quantity units
ModelQuantities == 0..(ORDER_QTY_PER_GRID * UnitsPerQty)

\* quantity.quantize(QUANTITY_PRECISION, rounding=ROUND_DOWN), in steps, for
\* every quantity of the model, worked out once
QuantizedQuantity ==
    [q \in ModelQuantities |->
        DQuantize(DFromQty(q), QUANTITY_EXP, "ROUND_DOWN")]

\* formatted_quantity of place_limit_order, in steps of QUANTITY_PRECISION,
\* of a quantity of so many units
FormattedQuantity(quantity) ==
    IF quantity \in ModelQuantities THEN QuantizedQuantity[quantity]
    ELSE DQuantize(DFromQty(quantity), QUANTITY_EXP, "ROUND_DOWN")

\* the parameters of the order request place_limit_order sends
OrderParams(side, quantity, price) ==
    [side |-> side, price |-> FormattedPrice(price),
     quantity |-> FormattedQuantity(quantity)]

\* the order the loop body asks for at a level of the given side: none
\* or one
WantedAt(level_quantized, side, prices) ==
    IF side # "NONE" /\ MissingOrder(level_quantized, side, prices)
    THEN <<OrderParams(side, ORDER_QTY_PER_GRID * UnitsPerQty, level_quantized)>>
    ELSE <<>>

Wanted(level_price, price, prices) ==
    WantedAt(LevelQuantized(level_price), LevelSide(level_price, price), prices)

\* open_order_prices that ignores the snapshot
ForgottenPrices(orders) == [side \in {"BUY", "SELL"} |-> {}]

\* open_order_prices that leaves the SELL orders of the snapshot out
OpenOrderPricesBuysOnly(orders) ==
    [side \in {"BUY", "SELL"} |->
        IF side = "SELL" THEN {}
        ELSE {QuantizePrice(o.price, "ROUND_HALF_EVEN") :
                 o \in {b \in orders : b.side = side}}]

\* open_order_prices of the orders of a snapshot (a set of orders)
OpenOrderPrices(orders) ==
    [side \in {"BUY", "SELL"} |->
        {QuantizePrice(o.price, "ROUND_HALF_EVEN") :
            o \in {b \in orders : b.side = side}}]

RECURSIVE ReconcileFrom(_, _, _, _)
ReconcileFrom(levels, i, price, prices) ==
    IF i > Len(levels) THEN <<>>
    ELSE Wanted(levels[i], price, prices)
            \o ReconcileFrom(levels, i + 1, price, prices)

\* the orders a tick asks for when no placement raises
Reconcile(price, levels, orders) ==
    ReconcileFrom(levels, 1, price, OpenOrderPrices(orders))

(***************************************************************************)
(* The grid parameters of the script, and the ones the model draws.        *)
(***************************************************************************)
UPPER_PRICE == 7000 * UnitsPerTick

LOWER_PRICE == 6000 * UnitsPerTick

NUM_GRIDS == 10

\* a negative price, zero, a price below the tick, a price between ticks and
\* every tick up to MaxTick
CalcPrices ==
    {0 - UnitsPerTick, 0, UnitsPerTick \div 2,
     UnitsPerTick + UnitsPerTick \div 2}
        \cup {t * UnitsPerTick : t \in 1..MaxTick}

CalcInputs ==
    [upper_price : CalcPrices, lower_price : CalcPrices, num_grids : 0..MaxGrids]
        \cup {[upper_price |-> UPPER_PRICE, lower_price |-> LOWER_PRICE,
               num_grids |-> NUM_GRIDS]}

\* the parameters the grid script is started with: a grid of the two highest
\* ticks, and one parameter set for each of the parameter checks
MainConfigs ==
    {[upper_price |-> MaxTick * UnitsPerTick,
      lower_price |-> (MaxTick - 1) * UnitsPerTick, num_grids |-> 1],
     [upper_price |-> MaxTick * UnitsPerTick,
      lower_price |-> MaxTick * UnitsPerTick, num_grids |-> 1],
     [upper_price |-> MaxTick * UnitsPerTick,
      lower_price |-> (MaxTick - 1) * UnitsPerTick, num_grids |-> 0],
     [upper_price |-> MaxTick * UnitsPerTick, lower_price |-> 0,
      num_grids |-> 1]}

\* the prices the ticker reports: every half tick about the two highest ticks
MarketPrices ==
    {(h * UnitsPerTick) \div 2 : h \in (2 * MaxTick - 3)..(2 * MaxTick + 1)}

\* current_price before the ticker has been read
NoPrice == 0

NoCalc == [stage |-> "none"]

NoRec == [stage |-> "none"]

NoOrd == [stage |-> "none"]

NoRaw == [stage |-> "none"]

NoVol == [pc |-> "none"]

NoBac == [pc |-> "none"]

NoReq == [stage |-> "none"]

NoTick == [stage |-> "none"]

NoPrices == [side \in {"BUY", "SELL"} |-> {}]

\* the state of a script that is not in a tick
IdleTick ==
    /\ status = "idle"
    /\ current_price = NoPrice
    /\ open_orders_list = EmptyBag
    /\ open_order_prices = NoPrices
    /\ fetched = "not"
    /\ idx = 0
    /\ attempts = <<>>
    /\ placed_orders_this_cycle = 0

NoScript ==
    /\ cfg = [upper_price |-> UPPER_PRICE, lower_price |-> LOWER_PRICE,
              num_grids |-> NUM_GRIDS]
    /\ pc = "none"
    /\ grid_levels = <<>>
    /\ IdleTick
    /\ book = EmptyBag
    /\ sent = {}
    /\ ref = NoTick

(***************************************************************************)
(* calculate_grid_levels applied to any of the inputs.                     *)
(***************************************************************************)
InitCalc ==
    /\ vol = NoVol
    /\ req = NoReq
    /\ bac = NoBac
    /\ calc \in [stage : {"input"}, input : CalcInputs]
    /\ rec = NoRec
    /\ ord = NoOrd
    /\ raw = NoRaw
    /\ NoScript

Calculate ==
    /\ calc.stage = "input"
    /\ calc' = [stage  |-> "done",
                input  |-> calc.input,
                result |-> GridCalculation(calc.input.upper_price,
                                           calc.input.lower_price,
                                           calc.input.num_grids)]
    /\ UNCHANGED <<req, vol, bac, rec, ord, raw, cfg, pc, grid_levels, tick, book, sent, ref>>

NextCalc == Calculate

SpecCalc == InitCalc /\ [][NextCalc]_vars

(***************************************************************************)
(* The level loop applied to any price, level list and open orders, and to *)
(* the same reflected about the price with the sides exchanged.            *)
(***************************************************************************)
\* the largest number of levels of a drawn level list
MaxLevels == 3
\* the largest number of open orders of a drawn snapshot
MaxOpen == 1

TickPrices == {t * UnitsPerTick : t \in 1..MaxTick}

SetMax(S) == CHOOSE x \in S : \A y \in S : y <= x

RECURSIVE DescSeq(_)
\* the members of S from the highest down, as calculate_grid_levels returns
\* its levels
DescSeq(S) ==
    IF S = {} THEN <<>> ELSE <<SetMax(S)>> \o DescSeq(S \ {SetMax(S)})

RecLevels ==
    {DescSeq(S) :
        S \in {T \in SUBSET TickPrices : Cardinality(T) <= MaxLevels}}

\* the prices of open orders: on the ticks, and one between two ticks
OrderPrices == TickPrices \cup {UnitsPerTick + UnitsPerTick \div 2}

RecOrders ==
    {S \in SUBSET [side : {"BUY", "SELL"}, price : OrderPrices] :
        Cardinality(S) <= MaxOpen}

\* price 0.65, levels 0.70, 0.68, 0.65, 0.62, 0.60 and no open orders
ExampleTick ==
    [current_price    |-> 6500 * UnitsPerTick,
     grid_levels      |-> <<7000 * UnitsPerTick, 6800 * UnitsPerTick,
                            6500 * UnitsPerTick, 6200 * UnitsPerTick,
                            6000 * UnitsPerTick>>,
     open_orders_list |-> {}]

RecInputs ==
    [current_price : MarketPrices, grid_levels : RecLevels,
     open_orders_list : RecOrders] \cup {ExampleTick}

MirrorPrice(p, price) == 2 * price - p

OtherSide(side) == IF side = "BUY" THEN "SELL" ELSE "BUY"

MirrorOrder(o, price) ==
    [side |-> OtherSide(o.side), price |-> MirrorPrice(o.price, price)]

\* the levels reflected, from the highest down again
MirrorLevels(levels, price) ==
    [i \in 1..Len(levels) |-> MirrorPrice(levels[Len(levels) + 1 - i], price)]

\* the reflected input is one the loop can meet: levels and order prices
\* that are positive multiples of the tick
CanMirror(in) ==
    /\ (2 * in.current_price) % UnitsPerTick = 0
    /\ \A i \in 1..Len(in.grid_levels) :
           MirrorPrice(in.grid_levels[i], in.current_price) > 0
    /\ \A o \in in.open_orders_list :
           /\ o.price % UnitsPerTick = 0
           /\ MirrorPrice(o.price, in.current_price) > 0

MirrorInput(in) ==
    [current_price    |-> in.current_price,
     grid_levels      |-> MirrorLevels(in.grid_levels, in.current_price),
     open_orders_list |-> {MirrorOrder(o, in.current_price) :
                              o \in in.open_orders_list}]

ReconcileInput(in) ==
    Reconcile(in.current_price, in.grid_levels, in.open_orders_list)

InitReconcile ==
    /\ vol = NoVol
    /\ req = NoReq
    /\ bac = NoBac
    /\ rec \in [stage : {"input"}, input : RecInputs]
    /\ calc = NoCalc
    /\ ord = NoOrd
    /\ raw = NoRaw
    /\ NoScript

RunLevelLoop ==
    /\ rec.stage = "input"
    /\ rec' = [stage    |-> "done",
               input    |-> rec.input,
               placed   |-> ReconcileInput(rec.input),
               mirrored |-> IF CanMirror(rec.input)
                            THEN ReconcileInput(MirrorInput(rec.input))
                            ELSE <<>>]
    /\ UNCHANGED <<req, vol, bac, calc, ord, raw, cfg, pc, grid_levels, tick, book, sent, ref>>

NextReconcile == RunLevelLoop

SpecReconcile == InitReconcile /\ [][NextReconcile]_vars

(***************************************************************************)
(* The grid script: start-up and the grid maintenance loop, and the        *)
(* exchange it talks to.                                                   *)
(***************************************************************************)
\* the most orders the exchange keeps open for the account
MaxOrders == 2

\* how a signed request ends: "ok" a response; "error" an HTTP or transport
\* error of the request; "no_time" the server time was not available and the
\* request was not sent; "raise" the server time response had no serverTime
SignedResults == {"ok", "error", "no_time", "raise"}

\* the request of the given kind, when a signed request that ends so sent it
Requests(kind, result) == IF result \in {"ok", "error"} THEN {kind} ELSE {}

\* what the caller of a signed request sees of its end
Seen(result) ==
    IF result = "ok" THEN "ok" ELSE IF result = "raise" THEN "raised" ELSE "none"

\* a start-up that goes on without levels
NeverExits(levels) == FALSE

\* if not grid_levels: exit()
StartupExits(levels) == Len(levels) = 0

\* the history of a tick whose outcome is kept, when the open orders change
Touched(r) ==
    IF r.stage = "outcome" THEN [r EXCEPT !.untouched = FALSE] ELSE r

\* the history of a tick whose outcome is kept, when a snapshot is read:
\* whether the snapshot holds exactly the orders that were open after the tick
Seeing(r, faithful) ==
    IF r.stage = "outcome" THEN [r EXCEPT !.seen = faithful /\ r.untouched]
    ELSE r

\* the history of a kept tick, when a later tick starts
Later(r) ==
    CASE r.stage = "outcome" -> [r EXCEPT !.seen = FALSE]
      [] r.stage = "inputs" -> [r EXCEPT !.later = TRUE]
      [] OTHER -> r

Init ==
    /\ vol = NoVol
    /\ req = NoReq
    /\ bac = NoBac
    /\ calc = NoCalc
    /\ rec = NoRec
    /\ ord = NoOrd
    /\ raw = NoRaw
    /\ cfg \in MainConfigs
    /\ pc = "start"
    /\ grid_levels = <<>>
    /\ IdleTick
    /\ book = EmptyBag
    /\ sent = {}
    /\ ref = NoTick

\* lines 278-281
Startup ==
    /\ pc = "start"
    /\ grid_levels' = calculate_grid_levels(cfg.upper_price, cfg.lower_price,
                                            cfg.num_grids)
    /\ pc' = IF StartupExits(grid_levels') THEN "exited" ELSE "tick"
    /\ UNCHANGED <<req, vol, bac, calc, rec, ord, raw, cfg, tick, book, sent, ref>>

\* lines 294-299: the ticker answers with a price
PriceFetched(p) ==
    /\ pc = "tick"
    /\ pc' = "orders"
    /\ status' = "running"
    /\ current_price' = p
    /\ sent' = sent \cup {"ticker"}
    /\ UNCHANGED <<req, vol, bac, calc, rec, ord, raw, cfg, grid_levels, open_orders_list, fetched,
                   open_order_prices, idx, attempts, placed_orders_this_cycle,
                   book, ref>>

\* a failed price fetch after which the tick goes on to the open orders
PriceFailedGoesOn(result) ==
    /\ pc = "tick"
    /\ pc' = "orders"
    /\ status' = result
    /\ sent' = sent \cup {"ticker"}
    /\ UNCHANGED <<req, vol, bac, calc, rec, ord, raw, cfg, grid_levels, current_price,
                   open_orders_list, fetched, open_order_prices, idx, attempts,
                   placed_orders_this_cycle, book, ref>>

\* lines 294-298: get_current_price returns None, or raises on a price that
\* is not a number (line 360)
PriceFailed(result) ==
    /\ pc = "tick"
    /\ pc' = "sleep"
    /\ status' = result
    /\ sent' = sent \cup {"ticker"}
    /\ UNCHANGED <<req, vol, bac, calc, rec, ord, raw, cfg, grid_levels, current_price, open_orders_list, fetched,
                   open_order_prices, idx, attempts, placed_orders_this_cycle,
                   book, ref>>

\* get_open_orders: result if result else []
SnapshotOf(result, orders) == IF result = "ok" THEN orders ELSE EmptyBag

\* an order record of the response whose price cannot be read: "missing" no
\* price key (KeyError), "text" a string that is no number (InvalidOperation),
\* "null" a price that is no string or number (TypeError); "none": the
\* response holds no such record
BadRecords == {"missing", "text", "null"}

\* except (KeyError, decimal.InvalidOperation): the record is skipped
RecordSkipped(record) == record \in {"missing", "text"}

\* what get_open_orders gave the tick
Fetched(result, record) ==
    IF result # "ok" THEN "nothing"
    ELSE IF record = "none" THEN "ok" ELSE "skipped"

\* lines 301-318: the response holds the open orders and, besides them, no
\* unreadable record or one that lines 312-313 skip
OrdersFetched(result, record) ==
    /\ pc = "orders"
    /\ result # "raise"
    /\ record = "none" \/ (result = "ok" /\ RecordSkipped(record))
    /\ pc' = "levels"
    /\ open_orders_list' = SnapshotOf(result, book)
    /\ open_order_prices' = OpenOrderPrices(BagToSet(open_orders_list'))
    /\ fetched' = Fetched(result, record)
    /\ placed_orders_this_cycle' = 0
    /\ idx' = 1
    /\ sent' = sent \cup Requests("openOrders", result)
    /\ ref' = Seeing(ref, result = "ok" /\ record = "none")
    /\ UNCHANGED <<req, vol, bac, calc, rec, ord, raw, cfg, grid_levels, status, current_price,
                   attempts, book>>

\* lines 301-311: the response holds a record whose price raises an exception
\* that line 312 does not catch; the tick ends at line 360 (open_order_prices,
\* left half built, is assigned again before it is read)
RecordRaised(record) ==
    /\ pc = "orders"
    /\ record \in BadRecords /\ ~RecordSkipped(record)
    /\ pc' = "sleep"
    /\ status' = "raised"
    /\ open_orders_list' = SnapshotOf("ok", book)
    /\ fetched' = "bad_record"
    /\ sent' = sent \cup Requests("openOrders", "ok")
    /\ UNCHANGED <<req, vol, bac, calc, rec, ord, raw, cfg, grid_levels, current_price,
                   open_order_prices, idx, attempts, placed_orders_this_cycle,
                   book, ref>>

\* an exception of line 301 that ends the script
OrdersRaisedFatal ==
    /\ pc = "orders"
    /\ pc' = "exited"
    /\ status' = "raised"
    /\ sent' = sent \cup Requests("openOrders", "raise")
    /\ UNCHANGED <<req, vol, bac, calc, rec, ord, raw, cfg, grid_levels, current_price, open_orders_list, fetched,
                   open_order_prices, idx, attempts, placed_orders_this_cycle,
                   book, ref>>

\* line 301 raises: the tick ends at line 360
OrdersRaised ==
    /\ pc = "orders"
    /\ pc' = "sleep"
    /\ status' = "raised"
    /\ sent' = sent \cup Requests("openOrders", "raise")
    /\ UNCHANGED <<req, vol, bac, calc, rec, ord, raw, cfg, grid_levels, current_price, open_orders_list, fetched,
                   open_order_prices, idx, attempts, placed_orders_this_cycle,
                   book, ref>>

\* an order on the wrong side of the price: a BUY above it, a SELL below it
Stranded(o, price) ==
    \/ o.side = "BUY" /\ o.price > price
    \/ o.side = "SELL" /\ o.price < price

\* a loop body that, at a level that asks for no order, cancels the orders on
\* the wrong side of the price
LevelSkippedCancelling(wanted) ==
    /\ Len(wanted) = 0
    /\ idx' = idx + 1
    /\ book' = [o \in {b \in DOMAIN book : ~Stranded(b, current_price)} |->
                    book[o]]
    /\ sent' = IF book' = book THEN sent ELSE sent \cup {"cancel"}
    /\ UNCHANGED <<req, vol, bac, calc, rec, ord, raw, cfg, pc, grid_levels, status,
                   current_price, open_orders_list, fetched, open_order_prices,
                   attempts, placed_orders_this_cycle, ref>>

\* the loop body for a level that asks for no order
LevelSkipped(wanted) ==
    /\ Len(wanted) = 0
    /\ idx' = idx + 1
    /\ UNCHANGED <<req, vol, bac, calc, rec, ord, raw, cfg, pc, grid_levels, status, current_price,
                   open_orders_list, fetched, open_order_prices, attempts,
                   placed_orders_this_cycle, book, sent, ref>>

\* the record of a place_limit_order call
Attempt(level, order, result) ==
    [level |-> level, side |-> order.side, price |-> order.price,
     quantity |-> order.quantity, result |-> Seen(result)]

\* a loop body that stays at the level when its placement failed
LevelPlacedRetrying(wanted, result) ==
    /\ Len(wanted) = 1
    /\ result = "ok" => BagCardinality(book) < MaxOrders
    /\ attempts' = Append(attempts, Attempt(idx, wanted[1], result))
    /\ idx' = IF result = "raise" \/ result = "ok" THEN idx + 1 ELSE idx
    /\ sent' = sent \cup Requests("order", result)
    /\ book' = IF result = "ok" THEN book (+) SetToBag({wanted[1]}) ELSE book
    /\ placed_orders_this_cycle' =
           IF result = "ok" THEN placed_orders_this_cycle + 1
           ELSE placed_orders_this_cycle
    /\ pc' = IF result = "raise" THEN "sleep" ELSE pc
    /\ status' = IF result = "raise" THEN "raised" ELSE status
    /\ ref' = IF result = "ok" THEN Touched(ref) ELSE ref
    /\ UNCHANGED <<req, vol, bac, calc, rec, ord, raw, cfg, grid_levels, current_price, open_orders_list, fetched,
                   open_order_prices>>

\* a loop body that ends the script when its placement failed
LevelPlacedOrExits(wanted, result) ==
    /\ Len(wanted) = 1
    /\ result = "ok" => BagCardinality(book) < MaxOrders
    /\ attempts' = Append(attempts, Attempt(idx, wanted[1], result))
    /\ idx' = idx + 1
    /\ sent' = sent \cup Requests("order", result)
    /\ book' = IF result = "ok" THEN book (+) SetToBag({wanted[1]}) ELSE book
    /\ placed_orders_this_cycle' =
           IF result = "ok" THEN placed_orders_this_cycle + 1
           ELSE placed_orders_this_cycle
    /\ pc' = IF result = "ok" THEN pc ELSE "exited"
    /\ status' = IF result = "raise" THEN "raised" ELSE status
    /\ ref' = IF result = "ok" THEN Touched(ref) ELSE ref
    /\ UNCHANGED <<req, vol, bac, calc, rec, ord, raw, cfg, grid_levels, current_price,
                   open_orders_list, fetched, open_order_prices>>

\* the loop body for a level that asks for an order: place_limit_order, and
\* the count of the orders placed
LevelPlaced(wanted, result) ==
    /\ Len(wanted) = 1
    /\ result = "ok" => BagCardinality(book) < MaxOrders
    /\ attempts' = Append(attempts, Attempt(idx, wanted[1], result))
    /\ idx' = idx + 1
    /\ sent' = sent \cup Requests("order", result)
    /\ book' = IF result = "ok" THEN book (+) SetToBag({wanted[1]}) ELSE book
    /\ placed_orders_this_cycle' =
           IF result = "ok" THEN placed_orders_this_cycle + 1
           ELSE placed_orders_this_cycle
    /\ pc' = IF result = "raise" THEN "sleep" ELSE pc
    /\ status' = IF result = "raise" THEN "raised" ELSE status
    /\ ref' = IF result = "ok" THEN Touched(ref) ELSE ref
    /\ UNCHANGED <<req, vol, bac, calc, rec, ord, raw, cfg, grid_levels, current_price, open_orders_list, fetched,
                   open_order_prices>>

\* lines 319-350, one level
Level(result) ==
    /\ pc = "levels"
    /\ idx <= Len(grid_levels)
    /\ \/ /\ result = "none"
          /\ LevelSkipped(Wanted(grid_levels[idx], current_price,
                                 open_order_prices))
       \/ /\ result \in SignedResults
          /\ LevelPlaced(Wanted(grid_levels[idx], current_price,
                                open_order_prices), result)

\* the orders asked for by the place_limit_order calls
Asked(calls) ==
    [i \in 1..Len(calls) |-> [side |-> calls[i].side, price |-> calls[i].price]]

\* the orders the exchange accepted from the place_limit_order calls (a tick
\* calls once for a level, and the levels differ)
PlacedOrders(calls) ==
    SetToBag({[side |-> calls[i].side, price |-> calls[i].price,
               quantity |-> calls[i].quantity] :
                 i \in {j \in 1..Len(calls) : calls[j].result = "ok"}})

\* what the history keeps of a tick that ran to its end: nothing, or the
\* price and the snapshot it read and the orders it asked for, or how it
\* left the open orders
TickRecord(keep) ==
    CASE keep = "inputs" ->
             [stage |-> "inputs", price |-> current_price,
              snapshot |-> open_orders_list, asked |-> Asked(attempts),
              later |-> FALSE]
      [] keep = "outcome" ->
             [stage |-> "outcome", price |-> current_price,
              all_ok |-> \A i \in 1..Len(attempts) : attempts[i].result = "ok",
              intact |-> (open_orders_list (+) PlacedOrders(attempts))
                             \sqsubseteq book,
              untouched |-> TRUE, seen |-> FALSE]
      [] keep = "no" -> NoTick

\* an end of the tick that takes the level at the price out of the grid
GridCheckCompleteTrimming(keep) ==
    /\ pc = "levels"
    /\ idx > Len(grid_levels)
    /\ keep # "no" => ref = NoTick
    /\ pc' = "sleep"
    /\ status' = "complete"
    /\ grid_levels' = SelectSeq(grid_levels, LAMBDA l : l # current_price)
    /\ ref' = IF keep = "no" THEN ref ELSE TickRecord(keep)
    /\ UNCHANGED <<req, vol, bac, calc, rec, ord, raw, cfg, current_price, open_orders_list,
                   fetched, open_order_prices, idx, attempts,
                   placed_orders_this_cycle, book, sent>>

\* line 358; the history may keep the tick
GridCheckComplete(keep) ==
    /\ pc = "levels"
    /\ idx > Len(grid_levels)
    /\ keep # "no" => ref = NoTick
    /\ pc' = "sleep"
    /\ status' = "complete"
    /\ ref' = IF keep = "no" THEN ref ELSE TickRecord(keep)
    /\ UNCHANGED <<req, vol, bac, calc, rec, ord, raw, cfg, grid_levels, current_price, open_orders_list, fetched,
                   open_order_prices, idx, attempts, placed_orders_this_cycle,
                   book, sent>>

\* lines 364-365 and 291: the next tick; what the last tick left in the
\* variables is assigned before it is read again
NextTick ==
    /\ pc = "sleep"
    /\ pc' = "tick"
    /\ status' = "idle"
    /\ current_price' = NoPrice
    /\ open_orders_list' = EmptyBag
    /\ open_order_prices' = NoPrices
    /\ fetched' = "not"
    /\ idx' = 0
    /\ attempts' = <<>>
    /\ placed_orders_this_cycle' = 0
    /\ ref' = Later(ref)
    /\ UNCHANGED <<req, vol, bac, calc, rec, ord, raw, cfg, grid_levels, book, sent>>

\* the exchange: an open order is filled, or cancelled by its owner
OrderLeaves(o) ==
    /\ pc # "start"
    /\ BagIn(o, book)
    /\ book' = book (-) SetToBag({o})
    /\ ref' = Touched(ref)
    /\ UNCHANGED <<req, vol, bac, calc, rec, ord, raw, cfg, pc, grid_levels, tick, sent>>

Next ==
    \/ Startup
    \/ \E p \in MarketPrices : PriceFetched(p)
    \/ \E result \in {"no_price", "raised"} : PriceFailed(result)
    \/ \E result \in SignedResults, record \in BadRecords \cup {"none"} :
           OrdersFetched(result, record)
    \/ \E record \in BadRecords : RecordRaised(record)
    \/ OrdersRaised
    \/ \E result \in SignedResults \cup {"none"} : Level(result)
    \/ \E keep \in {"no", "inputs", "outcome"} : GridCheckComplete(keep)
    \/ NextTick
    \/ \E o \in BagToSet(book) : OrderLeaves(o)

Spec == Init /\ [][Next]_vars


(***************************************************************************)
(* place_limit_order called with any side, quantity and price.             *)
(***************************************************************************)
\* the largest quantity of a drawn call, in steps of QUANTITY_PRECISION
MaxQty == 2

OrderInputs ==
    [side : {"BUY", "SELL"},
     quantity : 0..(MaxQty * UnitsPerQty),
     price : 1..(MaxTick * UnitsPerTick)]

InitOrder ==
    /\ vol = NoVol
    /\ req = NoReq
    /\ bac = NoBac
    /\ ord \in [stage : {"input"}, input : OrderInputs]
    /\ calc = NoCalc
    /\ rec = NoRec
    /\ raw = NoRaw
    /\ NoScript

\* lines 131-159: the parameters are formatted and the signed request is made
PlaceLimitOrder(result) ==
    /\ ord.stage = "input"
    /\ ord' = [stage  |-> "done",
               input  |-> ord.input,
               params |-> OrderParams(ord.input.side, ord.input.quantity,
                                      ord.input.price),
               sent   |-> Requests("order", result),
               result |-> Seen(result)]
    /\ UNCHANGED <<req, vol, bac, calc, rec, raw, cfg, pc, grid_levels, tick, book, sent, ref>>

NextOrder == \E result \in SignedResults : PlaceLimitOrder(result)

SpecOrder == InitOrder /\ [][NextOrder]_vars

(***************************************************************************)
(* A raw price made a grid level (line 223) and read as the price of an    *)
(* open order (line 310).                                                  *)
(***************************************************************************)
RawPrices == 0..(2 * MaxTick * UnitsPerTick)

InitQuantize ==
    /\ vol = NoVol
    /\ req = NoReq
    /\ bac = NoBac
    /\ raw \in [stage : {"input"}, value : RawPrices]
    /\ calc = NoCalc
    /\ rec = NoRec
    /\ ord = NoOrd
    /\ NoScript

\* the raw price formatted as calculate_grid_levels formats a level, and
\* quantized as the open-order partition quantizes the price of an order
QuantizeBoth ==
    /\ raw.stage = "input"
    /\ raw' = [stage       |-> "done",
               value       |-> raw.value,
               level       |-> FormatLevel(DFromUnits(raw.value)),
               order_price |-> QuantizePrice(raw.value, "ROUND_HALF_EVEN")]
    /\ UNCHANGED <<req, vol, bac, calc, rec, ord, cfg, pc, grid_levels, tick, book, sent, ref>>

NextQuantize == QuantizeBoth

SpecQuantize == InitQuantize /\ [][NextQuantize]_vars

(***************************************************************************)
(* The grid script at a market whose price stays, whose open orders are    *)
(* reported as they are and are not filled, and where a placement that is  *)
(* tried again and again succeeds at last.  It starts at line 289, after   *)
(* the levels were made.                                                   *)
(***************************************************************************)
\* the history holds the price the market stays at
Market(p) == [stage |-> "market", price |-> p]

InitConverge ==
    /\ vol = NoVol
    /\ req = NoReq
    /\ bac = NoBac
    /\ calc = NoCalc
    /\ rec = NoRec
    /\ ord = NoOrd
    /\ raw = NoRaw
    /\ cfg \in MainConfigs
    /\ grid_levels = calculate_grid_levels(cfg.upper_price, cfg.lower_price,
                                           cfg.num_grids)
    /\ ~StartupExits(grid_levels)
    /\ pc = "tick"
    /\ IdleTick
    /\ book = EmptyBag
    /\ sent = {}
    /\ ref \in {Market(p) : p \in MarketPrices}

\* lines 294-299: the ticker answers with the price of the market
PriceFetchedSteady == PriceFetched(ref.price)

\* lines 301-318: the response holds the open orders
OrdersFetchedFaithful == OrdersFetched("ok", "none")

\* lines 319-350, one level, with a successful placement
LevelSucceeds(j) == idx = j /\ Level("ok")

NextConverge ==
    \/ PriceFetchedSteady
    \/ \E result \in {"no_price", "raised"} : PriceFailed(result)
    \/ OrdersFetchedFaithful
    \/ \E result \in SignedResults \cup {"none"} : Level(result)
    \/ GridCheckComplete("no")
    \/ NextTick

\* the script goes on; a price fetch and the placement of a level that are
\* tried again and again succeed at last
FairConverge ==
    /\ WF_vars(NextConverge)
    /\ SF_vars(PriceFetchedSteady)
    /\ \A j \in 1..(MaxGrids + 1) : SF_vars(LevelSucceeds(j))

SpecConverge == InitConverge /\ [][NextConverge]_vars /\ FairConverge

(***************************************************************************)
(* The wash-trading script (aster_volume_strategy.py, lines 194-286):      *)
(* vol is the script after its API key check; its requests are answered    *)
(* by the exchange in every way make_signed_request can end.               *)
(***************************************************************************)
\* order_quantity
order_quantity == 10

\* the most cycles and the most status queries for an order in the model
MaxIterations == 2
MaxPoll == 2

\* how a placement ends: as a signed request does, or with a response
\* that holds no orderId
PlaceResults == SignedResults \cup {"no_id"}

\* how a status query ends: "none" get_order_status returned nothing, a
\* status of the order, or "raise"
Statuses ==
    {"NEW", "PARTIALLY_FILLED", "FILLED", "CANCELED", "EXPIRED", "REJECTED"}

StatusAnswers == Statuses \cup {"none", "raise"}

\* a polling that goes on after CANCELED, EXPIRED or REJECTED
PollEndsWhenFilled(st) == st = "FILLED"

\* lines 227-233, 264-270: the statuses that break out of the poll loop
PollEnds(st) == st \in {"FILLED", "CANCELED", "EXPIRED", "REJECTED"}

\* lines 227-229, 264-266: the status that sets the filled flag
Filled(st) == st = "FILLED"

\* a poll loop that runs once more than max_poll_attempts
MorePollsInclusive(attempt, max_poll_attempts) == attempt <= max_poll_attempts

\* for attempt in range(max_poll_attempts): the loop has a next attempt
MorePolls(attempt, max_poll_attempts) == attempt < max_poll_attempts

\* a gate that lets the SELL through whatever became of the BUY
SellGateOpen(buy_order_filled) == TRUE

\* lines 238, 249: the SELL is placed if the BUY was seen filled
SellGate(buy_order_filled) == buy_order_filled

\* the parameters of the request of place_market_order
MarketOrderParams(side, quantity) ==
    [side |-> side, type |-> "MARKET", quantity |-> quantity]

\* where the script is while it polls the order of a side, and after
Polling(side) == IF side = "BUY" THEN "poll_buy" ELSE "poll_sell"

Polled(side) == IF side = "BUY" THEN "buy_polled" ELSE "sell_polled"

InitVolume ==
    /\ calc = NoCalc /\ rec = NoRec /\ ord = NoOrd /\ raw = NoRaw
    /\ bac = NoBac
    /\ req = NoReq
    /\ NoScript
    /\ \E n \in 0..MaxIterations, m \in 0..MaxPoll :
           vol = [pc |-> IF n > 0 THEN "buy" ELSE "finished",
                  iterations |-> n, max_poll_attempts |-> m,
                  i |-> 0, attempt |-> 0,
                  buy_order_filled |-> FALSE, sell_order_filled |-> FALSE,
                  last |-> "none", polled |-> 0, placed |-> <<>>,
                  buys |-> 0, sells |-> 0, queries |-> 0, confirmed |-> 0]

\* lines 213-217 and 250-254: place_market_order for the side, and the
\* start of the poll loop
PlaceMarketOrder(side, result) ==
    /\ vol.pc = (IF side = "BUY" THEN "buy" ELSE "sell")
    /\ vol' = [vol EXCEPT
           !.pc = CASE result = "raise" -> "crashed"
                    [] result = "ok" ->
                           IF MorePolls(0, vol.max_poll_attempts)
                           THEN Polling(side) ELSE Polled(side)
                    [] OTHER -> "next",
           !.attempt = 0,
           !.polled = 0,
           !.last = "none",
           !.placed = Append(@, MarketOrderParams(side, order_quantity)),
           !.buys = IF side = "BUY" THEN @ + 1 ELSE @,
           !.sells = IF side = "SELL" THEN @ + 1 ELSE @]
    /\ UNCHANGED <<req, calc, rec, ord, raw, bac, cfg, pc, grid_levels, tick, book,
                   sent, ref>>

\* lines 220-236 and 257-273: one attempt of the poll loop
PollOrder(side, answer) ==
    /\ vol.pc = Polling(side)
    /\ vol' = [vol EXCEPT
           !.pc = IF answer = "raise" THEN "crashed"
                  ELSE IF PollEnds(answer)
                          \/ ~MorePolls(vol.attempt + 1, vol.max_poll_attempts)
                       THEN Polled(side) ELSE Polling(side),
           !.attempt = @ + 1,
           !.polled = @ + 1,
           !.queries = @ + 1,
           !.last = answer,
           !.buy_order_filled = IF side = "BUY" /\ Filled(answer) THEN TRUE ELSE @,
           !.sell_order_filled = IF side = "SELL" /\ Filled(answer) THEN TRUE ELSE @,
           !.confirmed = IF side = "BUY" /\ Filled(answer) THEN @ + 1 ELSE @]
    /\ UNCHANGED <<req, calc, rec, ord, raw, bac, cfg, pc, grid_levels, tick, book,
                   sent, ref>>

\* lines 238-249: continue unless the BUY was seen filled
BuyGate ==
    /\ vol.pc = "buy_polled"
    /\ vol' = [vol EXCEPT
           !.pc = IF SellGate(vol.buy_order_filled) THEN "sell" ELSE "next"]
    /\ UNCHANGED <<req, calc, rec, ord, raw, bac, cfg, pc, grid_levels, tick, book,
                   sent, ref>>

\* lines 275-277
SellChecked ==
    /\ vol.pc = "sell_polled"
    /\ vol' = [vol EXCEPT !.pc = "next"]
    /\ UNCHANGED <<req, calc, rec, ord, raw, bac, cfg, pc, grid_levels, tick, book,
                   sent, ref>>

\* the variables of a cycle as lines 207-210 set them
NewCycle(v) ==
    [v EXCEPT !.pc = "buy", !.attempt = 0, !.buy_order_filled = FALSE,
              !.sell_order_filled = FALSE, !.last = "none", !.polled = 0,
              !.placed = <<>>]

\* lines 205-210 and 283-286: the cycle ends (by continue or after the
\* sleep); the next one starts or the script finishes
EndOfCycle ==
    /\ vol.pc = "next"
    /\ vol' = IF vol.i + 1 < vol.iterations
              THEN NewCycle([vol EXCEPT !.i = @ + 1])
              ELSE [vol EXCEPT !.i = @ + 1, !.pc = "finished"]
    /\ UNCHANGED <<req, calc, rec, ord, raw, bac, cfg, pc, grid_levels, tick, book,
                   sent, ref>>

NextVolume ==
    \/ \E side \in {"BUY", "SELL"}, result \in PlaceResults :
           PlaceMarketOrder(side, result)
    \/ \E side \in {"BUY", "SELL"}, answer \in StatusAnswers :
           PollOrder(side, answer)
    \/ BuyGate
    \/ SellChecked
    \/ EndOfCycle

\* the script takes its next step: it only sleeps between its requests
FairVolume == WF_vars(NextVolume)

SpecVolume == InitVolume /\ [][NextVolume]_vars /\ FairVolume

(***************************************************************************)
(* The place-and-cancel script (aster_bid_and_cancel_test.py, lines        *)
(* 255-364): bac is the script after its API key check.                    *)
(***************************************************************************)
\* how get_book_ticker ends: a ticker, nothing, or an exception it does
\* not catch (a price that is no number)
TickerResults == {"ok", "none", "raise"}

\* how place_limit_order ends: "none" it returned nothing (the quantity
\* came to 0, the server time was not available or the request failed),
\* "no_id" a response without orderId, a response with an orderId and the
\* status, or "raise"
PlaceOutcomes == Statuses \cup {"none", "no_id", "raise"}

\* how the monitoring of the open orders ends: listed, not fetched, or an
\* exception (of the request, or of a record without one of the keys)
MonitorResults == {"ok", "none", "raise"}

\* lines 295, 315: the statuses with which the order id is kept
KeptForCancel(st) == st \in {"NEW", "PARTIALLY_FILLED"}

\* buy_order_id = None
NoId == 0

InitBidCancel ==
    /\ calc = NoCalc /\ rec = NoRec /\ ord = NoOrd /\ raw = NoRaw
    /\ vol = NoVol
    /\ req = NoReq
    /\ NoScript
    /\ \E n \in 0..MaxIterations :
           bac = [pc |-> IF n > 0 THEN "ticker" ELSE "finished",
                  iterations |-> n, i |-> 0,
                  buy_order_id |-> NoId, sell_order_id |-> NoId,
                  next_id |-> 1, placed |-> <<>>, cancels |-> <<>>,
                  ticker |-> "not", queries |-> 0]

\* lines 271, 362-364: the iteration ends; the next starts or the script
\* finishes
IterationEnded(b) ==
    [b EXCEPT !.i = @ + 1,
              !.pc = IF b.i + 1 < b.iterations THEN "ticker" ELSE "finished"]

\* the iteration goes on to its orders, with the ticker result given
IterationGoesOn(b, result) ==
    [b EXCEPT !.pc = "BUY", !.buy_order_id = NoId, !.sell_order_id = NoId,
              !.placed = <<>>, !.cancels = <<>>, !.ticker = result]

\* lines 275-283 without the test of line 276
GetBookTickerGoesOn(result) ==
    /\ bac.pc = "ticker"
    /\ bac' = IF result = "raise"
              THEN [bac EXCEPT !.pc = "crashed", !.ticker = result]
              ELSE IterationGoesOn(bac, result)
    /\ UNCHANGED <<req, calc, rec, ord, raw, vol, cfg, pc, grid_levels, tick, book,
                   sent, ref>>

\* lines 275-283: the ticker; without one the iteration is over (line 279),
\* with one the order ids of the iteration are reset
GetBookTicker(result) ==
    /\ bac.pc = "ticker"
    /\ bac' = CASE result = "raise" ->
                     [bac EXCEPT !.pc = "crashed", !.ticker = result]
                [] result = "none" ->
                     IterationEnded([bac EXCEPT !.ticker = result])
                [] OTHER -> IterationGoesOn(bac, result)
    /\ UNCHANGED <<req, calc, rec, ord, raw, vol, cfg, pc, grid_levels, tick, book,
                   sent, ref>>

\* the order id a placement leaves in buy_order_id or sell_order_id
IdKept(b, outcome, old) ==
    IF KeptForCancel(outcome) THEN b.next_id ELSE old

\* lines 286-322: place_limit_order of the side and the id kept of it
PlaceLimit(side, outcome) ==
    /\ bac.pc = side
    /\ bac' = [bac EXCEPT
           !.pc = IF outcome = "raise" THEN "crashed"
                  ELSE IF side = "BUY" THEN "SELL" ELSE "monitor",
           !.buy_order_id =
               IF side = "BUY" THEN IdKept(bac, outcome, @) ELSE @,
           !.sell_order_id =
               IF side = "SELL" THEN IdKept(bac, outcome, @) ELSE @,
           !.next_id = IF outcome \in Statuses THEN @ + 1 ELSE @,
           !.placed = IF outcome \in Statuses
                      THEN Append(@, [side |-> side, id |-> bac.next_id,
                                      status |-> outcome])
                      ELSE @]
    /\ UNCHANGED <<req, calc, rec, ord, raw, vol, cfg, pc, grid_levels, tick, book,
                   sent, ref>>

\* lines 326-338: the open orders are listed
MonitorOrders(result) ==
    /\ bac.pc = "monitor"
    /\ bac' = [bac EXCEPT
           !.pc = IF result = "raise" THEN "crashed" ELSE "cancel_BUY",
           !.queries = @ + 1]
    /\ UNCHANGED <<req, calc, rec, ord, raw, vol, cfg, pc, grid_levels, tick, book,
                   sent, ref>>

\* the order id of the side
IdOf(b, side) == IF side = "BUY" THEN b.buy_order_id ELSE b.sell_order_id

\* lines 344-350 and 352-358: cancel_order for the id of the side, if any
CancelPlaced(side, result) ==
    /\ bac.pc = (IF side = "BUY" THEN "cancel_BUY" ELSE "cancel_SELL")
    /\ (result = "skip") <=> (IdOf(bac, side) = NoId)
    /\ bac' = [bac EXCEPT
           !.pc = IF result = "raise" THEN "crashed"
                  ELSE IF side = "BUY" THEN "cancel_SELL" ELSE "end",
           !.cancels = IF result = "skip" THEN @
                       ELSE Append(@, [side |-> side, id |-> IdOf(bac, side),
                                       result |-> Seen(result)])]
    /\ UNCHANGED <<req, calc, rec, ord, raw, vol, cfg, pc, grid_levels, tick, book,
                   sent, ref>>

\* lines 361-362
EndIteration ==
    /\ bac.pc = "end"
    /\ bac' = IterationEnded(bac)
    /\ UNCHANGED <<req, calc, rec, ord, raw, vol, cfg, pc, grid_levels, tick, book,
                   sent, ref>>

NextBidCancel ==
    \/ \E result \in TickerResults : GetBookTicker(result)
    \/ \E side \in {"BUY", "SELL"}, outcome \in PlaceOutcomes :
           PlaceLimit(side, outcome)
    \/ \E result \in MonitorResults : MonitorOrders(result)
    \/ \E side \in {"BUY", "SELL"}, result \in SignedResults \cup {"skip"} :
           CancelPlaced(side, result)
    \/ EndIteration

SpecBidCancel == InitBidCancel /\ [][NextBidCancel]_vars


(***************************************************************************)
(* place_limit_order of the place-and-cancel script, called with any       *)
(* ticker, side and offset (aster_bid_and_cancel_test.py, lines 154-222).  *)
(* A price of p units is p * 10^-(TICK_EXP + SubTick).                     *)
(***************************************************************************)
\* line 33: PRICE_PRECISION = Decimal('0.001')
LIMIT_PRICE_EXP == 3
\* line 36: TICK_SIZE = Decimal('0.001')
TICK_EXP == 3
\* line 258
target_usdt_value == 7
\* the largest offset of a drawn call, in ticks, either way
MaxOffset == 2

\* the units of the place-and-cancel script in 1 USDT
LimitUnitsPerUsdt == Pow10(TICK_EXP + SubTick)

\* Decimal(str(p)) of a price of p units
DFromLimitUnits(p) == [c |-> BFromNat(p), e |-> 0 - (TICK_EXP + SubTick)]

\* the prices of a drawn ticker: the ticks and the half ticks between them
HalfTickPrices == {(t * UnitsPerTick) \div 2 : t \in 1..(2 * MaxTick)}

\* bid 6.999, ask 7.001: 7 USDT buy one unit at the bid and none at the ask
ExampleTicker ==
    [bidPrice |-> 6999 * UnitsPerTick, askPrice |-> 7001 * UnitsPerTick]

Tickers == [bidPrice : HalfTickPrices, askPrice : HalfTickPrices]
               \cup {ExampleTicker}

LimitInputs ==
    [side : {"BUY", "SELL", "buy", "HOLD"},
     usdt_amount : {target_usdt_value},
     price_offset_ticks : (0 - MaxOffset)..MaxOffset,
     base_ticker : Tickers]

\* side.upper()
Upper(side) == IF side = "buy" THEN "BUY" ELSE side

\* lines 175-188 without the safety checks
TargetPriceUnchecked(side, bid_price, ask_price, offset) ==
    IF side = "BUY" THEN bid_price + offset * UnitsPerTick
    ELSE ask_price - offset * UnitsPerTick

\* lines 175-188: target_price of a BUY or SELL; an adjusted price that
\* crosses the other side of the book is replaced by the best bid or ask
TargetPrice(side, bid_price, ask_price, offset) ==
    IF side = "BUY"
    THEN IF bid_price + offset * UnitsPerTick >= ask_price THEN bid_price
         ELSE bid_price + offset * UnitsPerTick
    ELSE IF ask_price - offset * UnitsPerTick <= bid_price THEN ask_price
         ELSE ask_price - offset * UnitsPerTick

\* lines 199-203: (Decimal(str(usdt_amount)) / target_price) quantized to
\* QUANTITY_PRECISION, rounded down
LimitQuantity(usdt_amount, target_price) ==
    DQuantize(DDiv(usdt_amount * LimitUnitsPerUsdt, target_price),
              QUANTITY_EXP, "ROUND_DOWN")

\* line 204: target_price.quantize(PRICE_PRECISION, ROUND_HALF_UP), in units
LimitPrice(target_price) ==
    DQuantize(DFromLimitUnits(target_price), LIMIT_PRICE_EXP, "ROUND_HALF_UP")
        * Pow10(TICK_EXP + SubTick - LIMIT_PRICE_EXP)

\* lines 194-222 for a target price: the call returns None for a price
\* <= 0 or a quantity <= 0 and makes the signed request otherwise
LimitOrderAt(side, usdt_amount, target_price) ==
    IF target_price <= 0
    THEN [call |-> "invalid_price", target_price |-> target_price]
    ELSE IF LimitQuantity(usdt_amount, target_price) <= 0
    THEN [call |-> "too_small", target_price |-> target_price]
    ELSE [call |-> "request", target_price |-> target_price,
          side |-> side, type |-> "LIMIT", timeInForce |-> "GTC",
          quantity |-> LimitQuantity(usdt_amount, target_price),
          price |-> LimitPrice(target_price)]

\* lines 171-222: what place_limit_order does with its arguments
LimitOrder(in) ==
    IF Upper(in.side) \notin {"BUY", "SELL"} THEN [call |-> "invalid_side"]
    ELSE LimitOrderAt(Upper(in.side), in.usdt_amount,
                      TargetPrice(Upper(in.side), in.base_ticker.bidPrice,
                                  in.base_ticker.askPrice,
                                  in.price_offset_ticks))

InitLimit ==
    /\ vol = NoVol
    /\ req = NoReq
    /\ bac = NoBac
    /\ ord \in [stage : {"input"}, input : LimitInputs]
    /\ calc = NoCalc
    /\ rec = NoRec
    /\ raw = NoRaw
    /\ NoScript

\* lines 171-209: the call ends without a request
LimitOrderSkipped ==
    /\ ord.stage = "input"
    /\ LimitOrder(ord.input).call # "request"
    /\ ord' = [stage  |-> "done",
               input  |-> ord.input,
               order  |-> LimitOrder(ord.input),
               sent   |-> {},
               result |-> "none"]
    /\ UNCHANGED <<req, vol, bac, calc, rec, raw, cfg, pc, grid_levels, tick, book,
                   sent, ref>>

\* lines 171-222: the signed request is made with the formatted parameters
LimitOrderRequested(result) ==
    /\ ord.stage = "input"
    /\ LimitOrder(ord.input).call = "request"
    /\ ord' = [stage  |-> "done",
               input  |-> ord.input,
               order  |-> LimitOrder(ord.input),
               sent   |-> Requests("order", result),
               result |-> Seen(result)]
    /\ UNCHANGED <<req, vol, bac, calc, rec, raw, cfg, pc, grid_levels, tick, book,
                   sent, ref>>

NextLimit ==
    \/ LimitOrderSkipped
    \/ \E result \in SignedResults : LimitOrderRequested(result)

SpecLimit == InitLimit /\ [][NextLimit]_vars

(***************************************************************************)
(* make_signed_request called with any method and parameters, the server   *)
(* time and the exchange answering in any way (the three scripts have the  *)
(* same function but for its printing).                                    *)
(***************************************************************************)
\* the largest server time of a drawn answer, in ms
MaxTime == 2

\* params_for_signing['recvWindow'] = 5000
recvWindow == 5000

Methods == {"GET", "POST", "DELETE", "post", "PUT"}

\* the mappings a caller passes, as sets of <<key, value>>: none, the
\* symbol, the symbol with an order id, the symbol with a timestamp of the
\* caller
ParamChoices ==
    {{},
     {<<"symbol", "CRVUSDT">>},
     {<<"symbol", "CRVUSDT">>, <<"orderId", "1">>},
     {<<"symbol", "CRVUSDT">>, <<"timestamp", 0>>}}

\* how get_server_time ends: the serverTime of the response, None after an
\* error of the request, or the KeyError of a response without serverTime
ServerTimes ==
    [kind : {"time"}, ms : 0..MaxTime]
        \cup {[kind |-> "none"], [kind |-> "raise"]}

\* how requests.get/post/delete and raise_for_status end
Transports == {"ok", "error"}

\* method.upper()
UpperMethod(method) == IF method = "post" THEN "POST" ELSE method

\* a function that sends whatever the method
AnyMethodSupported(method) == TRUE

\* the branches of the if of the grid script's lines 90-102
MethodSupported(method) == UpperMethod(method) \in {"GET", "POST", "DELETE"}

\* mapping[key] = value
Put(mapping, key, value) ==
    {p \in mapping : p[1] # key} \cup {<<key, value>>}

\* params.copy() with timestamp and recvWindow set in the copy; the caller's
\* mapping is another object and keeps its entries
ParamsForSigning(params, ms) ==
    [caller |-> params,
     for_signing |-> Put(Put(params, "timestamp", ms),
                         "recvWindow", recvWindow)]

\* the request with its query string: the sorted parameters and their
\* HMAC signature under the secret key
SignedRequest(method, for_signing) ==
    [method |-> UpperMethod(method), query |-> for_signing,
     signature |-> [key |-> "SECRET_KEY", message |-> for_signing]]

\* the call from the signing on, the server time known
SignedFrom(method, p, transport) ==
    IF ~MethodSupported(method)
    THEN [result |-> "none", sent |-> {}, params |-> p.caller,
          transport |-> "not_sent"]
    ELSE [result |-> IF transport = "ok" THEN "ok" ELSE "none",
          sent |-> {SignedRequest(method, p.for_signing)},
          params |-> p.caller, transport |-> transport]

\* make_signed_request(method, endpoint, params): what the caller gets
\* (a response "ok", None "none", or the exception "raised"), the
\* requests that reached the order endpoints, and the caller's params after
\* the call
SignedCall(method, params, server, transport) ==
    CASE server.kind = "raise" ->
             [result |-> "raised", sent |-> {}, params |-> params,
              transport |-> "not_sent"]
      [] server.kind = "none" ->
             [result |-> "none", sent |-> {}, params |-> params,
              transport |-> "not_sent"]
      [] OTHER ->
             SignedFrom(method, ParamsForSigning(params, server.ms),
                        transport)

InitSigned ==
    /\ req \in [stage : {"input"}, method : Methods, params : ParamChoices]
    /\ calc = NoCalc /\ rec = NoRec /\ ord = NoOrd /\ raw = NoRaw
    /\ vol = NoVol /\ bac = NoBac
    /\ NoScript

MakeSignedRequest(server, transport) ==
    /\ req.stage = "input"
    /\ req' = [stage  |-> "done",
               method |-> req.method,
               params |-> req.params,
               server |-> server,
               call   |-> SignedCall(req.method, req.params, server,
                                     transport)]
    /\ UNCHANGED <<calc, rec, ord, raw, vol, bac, cfg, pc, grid_levels, tick,
                   book, sent, ref>>

NextSigned ==
    \E server \in ServerTimes, transport \in Transports :
        MakeSignedRequest(server, transport)

SpecSigned == InitSigned /\ [][NextSigned]_vars
(***************************************************************************)
(* Properties of the grid maintenance loop.                                *)
(***************************************************************************)
\* the place_limit_order calls of the current tick made for the level at
\* position j of grid_levels
AttemptsAt(j) == {i \in 1..Len(attempts) : attempts[i].level = j}

\* the snapshot of the current tick holds an order of the side whose price
\* quantizes to the level
Covered(level_price, side) ==
    \E o \in BagToSet(open_orders_list) :
        /\ o.side = side
        /\ QuantizePrice(o.price, "ROUND_HALF_EVEN") = level_price

\* the level at position j was passed by the loop with exactly one call, an
\* order of the side at the level
PlacedOnce(j, side) ==
    /\ Cardinality(AttemptsAt(j)) = 1
    /\ \A i \in AttemptsAt(j) :
           /\ attempts[i].side = side
           /\ attempts[i].price = grid_levels[j]

\* C1: in a tick, for every level below the current price that the loop has
\* passed, exactly one BUY placement at the level is attempted when the
\* snapshot holds no open BUY whose quantized price is the level, and no
\* placement of either side is attempted for it when the snapshot holds one.
C1_BuySide ==
    \A j \in 1..Len(grid_levels) :
        (j < idx /\ grid_levels[j] < current_price) =>
            IF Covered(grid_levels[j], "BUY")
            THEN AttemptsAt(j) = {}
            ELSE PlacedOnce(j, "BUY")

\* a tick that ran to its end over two levels below the price: one with an
\* open BUY in the snapshot and no call, one without and with its call
C1_Witness ==
    /\ status = "complete"
    /\ \E j, k \in 1..Len(grid_levels) :
           /\ grid_levels[j] < current_price
           /\ grid_levels[k] < current_price
           /\ Covered(grid_levels[j], "BUY") /\ AttemptsAt(j) = {}
           /\ ~Covered(grid_levels[k], "BUY") /\ AttemptsAt(k) # {}

\* the orders of a sequence of placements, without their quantity
SidePrice(placed) ==
    {[side |-> placed[i].side, price |-> placed[i].price] :
        i \in 1..Len(placed)}

\* the positions of the placements at a price
PlacedAt(placed, level_price) ==
    {i \in 1..Len(placed) : placed[i].price = level_price}

\* the orders of the input hold an order of the side at the level
CoveredIn(in, level_price, side) ==
    \E o \in in.open_orders_list :
        /\ o.side = side
        /\ QuantizePrice(o.price, "ROUND_HALF_EVEN") = level_price

\* C2: the level loop places exactly one SELL at every level above the price
\* that has no open SELL and nothing at a level above the price that has
\* one; and run on the input reflected about the price with BUY and SELL
\* exchanged it places exactly the reflected placements.
C2_SellSideAndMirror ==
    rec.stage = "done" =>
        /\ \A j \in 1..Len(rec.input.grid_levels) :
               rec.input.grid_levels[j] > rec.input.current_price =>
                   IF CoveredIn(rec.input, rec.input.grid_levels[j], "SELL")
                   THEN PlacedAt(rec.placed, rec.input.grid_levels[j]) = {}
                   ELSE /\ Cardinality(PlacedAt(rec.placed,
                                                rec.input.grid_levels[j])) = 1
                        /\ \A i \in PlacedAt(rec.placed,
                                             rec.input.grid_levels[j]) :
                               rec.placed[i].side = "SELL"
        /\ CanMirror(rec.input) =>
               /\ Len(rec.mirrored) = Len(rec.placed)
               /\ SidePrice(rec.mirrored) =
                      {MirrorOrder(o, rec.input.current_price) :
                          o \in SidePrice(rec.placed)}

\* a run that placed a SELL and a BUY, left a level with an open SELL alone,
\* and whose input has a reflection
C2_Witness ==
    /\ rec.stage = "done"
    /\ CanMirror(rec.input)
    /\ \E i, k \in 1..Len(rec.placed) :
           rec.placed[i].side = "SELL" /\ rec.placed[k].side = "BUY"
    /\ \E j \in 1..Len(rec.input.grid_levels) :
           /\ rec.input.grid_levels[j] > rec.input.current_price
           /\ CoveredIn(rec.input, rec.input.grid_levels[j], "SELL")

\* C3: the level loop places nothing at a level equal to the current price,
\* whatever the open orders; with price 0.65, levels 0.60, 0.62, 0.65, 0.68,
\* 0.70 and no open orders it places BUY at 0.60 and 0.62 and SELL at 0.68
\* and 0.70.
C3_NothingAtPrice ==
    rec.stage = "done" =>
        /\ \A j \in 1..Len(rec.input.grid_levels) :
               rec.input.grid_levels[j] = rec.input.current_price =>
                   PlacedAt(rec.placed, rec.input.grid_levels[j]) = {}
        /\ rec.input = ExampleTick =>
               /\ Len(rec.placed) = 4
               /\ SidePrice(rec.placed) =
                      {[side |-> "BUY", price |-> 6000 * UnitsPerTick],
                       [side |-> "BUY", price |-> 6200 * UnitsPerTick],
                       [side |-> "SELL", price |-> 6800 * UnitsPerTick],
                       [side |-> "SELL", price |-> 7000 * UnitsPerTick]}

\* a run with a level at the price, levels on both sides of it, and an open
\* order at the price
C3_Witness ==
    /\ rec.stage = "done"
    /\ rec.input # ExampleTick
    /\ Len(rec.placed) >= 2
    /\ \E j \in 1..Len(rec.input.grid_levels) :
           rec.input.grid_levels[j] = rec.input.current_price
    /\ \E o \in rec.input.open_orders_list :
           o.price = rec.input.current_price

\* C4 as stated: when every placement of a tick succeeded and a later tick
\* sees the same price and a snapshot of exactly the orders that were open
\* after that tick, the later tick attempts no placement.
C4_Idempotent ==
    (/\ ref.stage = "outcome"
     /\ ref.all_ok
     /\ ref.seen
     /\ current_price = ref.price) => attempts = <<>>

\* C4, amended: when every placement of a tick succeeded, every order of its
\* snapshot and every order it placed was still open at its end, and a later
\* tick sees the same price and a snapshot of exactly the orders that were
\* open after that tick, the later tick attempts no placement.
C4_IdempotentWhenIntact ==
    (/\ ref.stage = "outcome"
     /\ ref.all_ok
     /\ ref.intact
     /\ ref.seen
     /\ current_price = ref.price) => attempts = <<>>

\* a later tick that ran to its end on such a snapshot, with both levels
\* covered by open orders
C4_Witness ==
    /\ ref.stage = "outcome"
    /\ ref.all_ok /\ ref.intact /\ ref.seen
    /\ current_price = ref.price
    /\ status = "complete"
    /\ BagCardinality(open_orders_list) = Len(grid_levels)

\* s is an initial part of t
IsPrefix(s, t) == Len(s) <= Len(t) /\ s = SubSeq(t, 1, Len(s))

\* C5: a tick that reads the same price and the same snapshot as an earlier
\* tick (the levels never change) attempts the same placements in the same
\* order: while it runs, an initial part of them, and all of them once its
\* loop is through, whatever happened in between.
C5_Deterministic ==
    (/\ ref.stage = "inputs"
     /\ idx >= 1
     /\ current_price = ref.price
     /\ open_orders_list = ref.snapshot) =>
        /\ IsPrefix(Asked(attempts), ref.asked)
        /\ idx > Len(grid_levels) => Asked(attempts) = ref.asked

\* a later tick with the price and the snapshot of the kept one that ran to
\* its end with a placement, after orders were placed in between
C5_Witness ==
    /\ ref.stage = "inputs"
    /\ ref.later
    /\ status = "complete"
    /\ current_price = ref.price
    /\ open_orders_list = ref.snapshot
    /\ Len(attempts) >= 1
    /\ "order" \in sent

\* C7: when calculate_grid_levels returned no levels the script has exited
\* and has sent no request: no price fetch, no open-order fetch, no order.
C7_BadConfigExits ==
    (pc # "start" /\ Len(grid_levels) = 0) =>
        /\ pc = "exited"
        /\ sent = {}
        /\ book = EmptyBag
        /\ status = "idle"

\* a script that exited at start-up for a lower price that is not positive
C7_Witness ==
    /\ pc = "exited"
    /\ cfg.lower_price <= 0
    /\ cfg.upper_price > cfg.lower_price

(***************************************************************************)
(* Properties of calculate_grid_levels.                                    *)
(***************************************************************************)
\* the call of calculate_grid_levels has returned
Returned == calc.stage = "done"

\* upper > lower > 0 and n >= 1
ValidInput ==
    /\ calc.input.upper_price > calc.input.lower_price
    /\ calc.input.lower_price > 0
    /\ calc.input.num_grids >= 1

C8_DescendingTicks ==
    (Returned /\ ValidInput) =>
        /\ Len(calc.result.levels) <= calc.input.num_grids + 1
        /\ \A i \in 1..Len(calc.result.levels) :
               /\ calc.result.levels[i] % UnitsPerTick = 0
               /\ calc.result.levels[i] <= calc.input.upper_price
               /\ i > 1 => calc.result.levels[i] < calc.result.levels[i - 1]

\* a call with an upper price between two ticks that returned more than one
\* level
C8_Witness ==
    /\ Returned /\ ValidInput
    /\ calc.input.upper_price % UnitsPerTick # 0
    /\ Len(calc.result.levels) >= 2

\* p rounded down to the tick
TickFloor(p) == (p \div UnitsPerTick) * UnitsPerTick

\* C9: for a valid input the first returned level is upper rounded down to
\* the tick and the last is lower rounded down to the tick; upper 0.70, lower
\* 0.60, num_grids 10 gives 11 levels from 0.7000 to 0.6000.
C9_BoundaryInclusion ==
    (Returned /\ ValidInput) =>
        /\ calc.result.levels[1] = TickFloor(calc.input.upper_price)
        /\ calc.result.levels[Len(calc.result.levels)] =
               TickFloor(calc.input.lower_price)
        /\ (/\ calc.input.upper_price = UPPER_PRICE
            /\ calc.input.lower_price = LOWER_PRICE
            /\ calc.input.num_grids = NUM_GRIDS) =>
               Len(calc.result.levels) = NUM_GRIDS + 1

RECURSIVE KeptFrom(_, _, _)
\* the levels kept of temp_sorted from position i on, each compared with the
\* last level kept
KeptFrom(temp_sorted, i, kept) ==
    IF i > Len(temp_sorted) THEN kept
    ELSE KeptFrom(temp_sorted, i + 1,
                  IF Abs(temp_sorted[i] - kept[Len(kept)]) > Tolerance
                  THEN Append(kept, temp_sorted[i])
                  ELSE kept)

KeptLevels(temp_sorted) ==
    IF Len(temp_sorted) = 0 THEN <<>>
    ELSE KeptFrom(temp_sorted, 2, <<temp_sorted[1]>>)

\* C10: the returned levels are the sorted formatted levels without every
\* level within half a tick of the last level kept (comparing with the
\* previous sorted level, as the code does, drops the same levels), and two
\* adjacent returned levels differ by more than half a tick.
C10_Dedup ==
    (Returned /\ ~calc.result.error) =>
        /\ calc.result.levels =
               KeptLevels(SortedDesc(calc.result.formatted_levels))
        /\ \A i \in 2..Len(calc.result.levels) :
               Abs(calc.result.levels[i] - calc.result.levels[i - 1])
                   > Tolerance

\* a call that dropped formatted levels and returned more than one
C10_Witness ==
    /\ Returned /\ ~calc.result.error
    /\ Len(calc.result.levels) >= 2
    /\ Len(calc.result.levels) < Len(calc.result.formatted_levels)

\* C11 as stated: a valid input for which fewer than num_grids + 1 levels are
\* returned gets the warning, and the levels are returned.
C11_WarnsBelowExpected ==
    (Returned /\ ValidInput
        /\ Len(calc.result.levels) < calc.input.num_grids + 1) =>
        /\ calc.result.warning
        /\ calc.result.levels # <<>>

\* C11, amended: a valid input gets the warning exactly when fewer than
\* num_grids levels are returned, and the levels are returned with it.
C11_WarnsBelowGrids ==
    (Returned /\ ValidInput) =>
        /\ calc.result.warning <=>
               Len(calc.result.levels) < calc.input.num_grids
        /\ calc.result.levels # <<>>

\* a call that returned levels, fewer than num_grids, with the warning
C11_Witness ==
    /\ Returned /\ ValidInput
    /\ calc.result.warning
    /\ Len(calc.result.levels) >= 2
    /\ Len(calc.result.levels) < calc.input.num_grids

(***************************************************************************)
(* Errors in a tick.                                                       *)
(***************************************************************************)
\* C12: a tick whose price fetch returns nothing sends the ticker request
\* only and ends; until the next tick starts no request is sent, no open
\* orders are read and no order is placed, and the next tick starts as every
\* tick starts.
C12_PriceAbsentSkipsTick ==
    [][/\ (status' = "no_price" /\ status # "no_price") =>
              /\ pc = "tick" /\ pc' = "sleep"
              /\ sent' \subseteq sent \cup {"ticker"}
              /\ book' = book
       /\ status = "no_price" =>
              /\ pc = "sleep" /\ pc' \in {"sleep", "tick"}
              /\ fetched = "not" /\ idx = 0 /\ attempts = <<>>
              /\ sent' = sent
              /\ book' \sqsubseteq book
              /\ pc' = "tick" => IdleTick']_vars

\* a tick that ended for want of a price, with orders open from earlier ticks
C12_Witness ==
    /\ status = "no_price"
    /\ pc = "sleep"
    /\ BagCardinality(book) >= 1

\* C13: a tick whose open-order fetch returned nothing attempts no placement.
C13_OrderFetchFailureSkipsTick ==
    fetched = "nothing" => attempts = <<>>

\* C14: a tick whose snapshot held an order record with an unreadable price
\* skips the record: the prices of every other order of the snapshot are in
\* open_order_prices and the loop goes through the levels.
C14_BadRecordSkipped ==
    fetched \in {"skipped", "bad_record"} =>
        /\ idx >= 1
        /\ open_order_prices = OpenOrderPrices(BagToSet(open_orders_list))
        /\ status # "raised" => pc = "levels" \/ idx > Len(grid_levels)

\* C15: in a tick the place_limit_order calls are made for levels in the
\* order of the loop, at most one for a level, the loop is past every level
\* it called for, and a call that failed did not end the tick: a failed
\* placement is not tried again before the next tick.
C15_NoRetryInTick ==
    \A i \in 1..Len(attempts) :
        /\ attempts[i].level < idx
        /\ i > 1 => attempts[i - 1].level < attempts[i].level
        /\ (attempts[i].result = "none" /\ pc = "sleep") =>
               \/ status = "complete"
               \/ attempts[Len(attempts)].result = "raised"

\* a tick that ran to its end after a failed placement at its first level and
\* a placement at the next
C15_Witness ==
    /\ status = "complete"
    /\ Len(attempts) >= 2
    /\ attempts[1].result = "none"
    /\ attempts[2].level = attempts[1].level + 1

\* C16: once the loop runs the script stays in it, whatever a tick meets: a
\* tick that ended, however it ended, can be followed by the next tick; the
\* next tick starts as every tick starts; and the levels never change.
C16_TickErrorsAreLocal ==
    /\ [](pc = "sleep" => ENABLED NextTick)
    /\ [][/\ pc # "start" => grid_levels' = grid_levels
          /\ pc \in {"tick", "orders", "levels", "sleep"} =>
                 pc' \in {"tick", "orders", "levels", "sleep"}
          /\ (pc = "sleep" /\ pc' # "sleep") =>
                 (pc' = "tick" /\ IdleTick')]_vars

\* a tick ended by an exception after it had placed an order
C16_Witness ==
    /\ pc = "sleep"
    /\ status = "raised"
    /\ placed_orders_this_cycle >= 1

(***************************************************************************)
(* Properties of place_limit_order.                                        *)
(***************************************************************************)
\* C17: no order request is sent when the quantity rounded down to the
\* quantity precision is not positive (e.g. a quantity of 0.3).
C17_ZeroQuantityNotSent ==
    (ord.stage = "done" /\ ord.params.quantity <= 0) => ord.sent = {}

\* C18: the price of the order request is the largest multiple of the price
\* precision not above the requested price, and its quantity the largest
\* multiple of the quantity precision not above the requested quantity.
C18_RoundedTowardZero ==
    ord.stage = "done" =>
        /\ ord.params.price % UnitsPerTick = 0
        /\ ord.params.price <= ord.input.price
        /\ ord.input.price < ord.params.price + UnitsPerTick
        /\ ord.params.quantity * UnitsPerQty <= ord.input.quantity
        /\ ord.input.quantity < (ord.params.quantity + 1) * UnitsPerQty

\* a request sent for a price above half way between two ticks and a
\* quantity above half way between two steps
C18_Witness ==
    /\ ord.stage = "done"
    /\ ord.sent = {"order"}
    /\ ord.input.price % UnitsPerTick > UnitsPerTick \div 2
    /\ ord.input.quantity % UnitsPerQty > UnitsPerQty \div 2
    /\ ord.params.quantity >= 1

(***************************************************************************)
(* Properties of the price comparison.                                     *)
(***************************************************************************)
\* C19: the price of an open order less than half a tick from a tick
\* quantizes to that tick, and a raw price quantizes to the same tick as a
\* level and as the price of an open order.
C19_SameTick ==
    raw.stage = "done" =>
        /\ \A t \in 0..(2 * MaxTick) :
               Abs(raw.value - t * UnitsPerTick) < Tolerance =>
                   raw.order_price = t * UnitsPerTick
        /\ raw.level = raw.order_price

(***************************************************************************)
(* The requests of the grid script.                                        *)
(***************************************************************************)
\* C20: the script sends no request but the ticker, the open-order and the
\* order placement request; a step that takes an order from the book is a
\* step of the exchange, not of the script, and a step of the script that
\* changes the book adds the order of a placement.
C20_NeverCancels ==
    [][/\ sent' \subseteq {"ticker", "openOrders", "order"}
       /\ book' # book =>
              \/ /\ book' \sqsubseteq book
                 /\ UNCHANGED <<pc, tick, sent, grid_levels>>
              \/ /\ book \sqsubseteq book'
                 /\ BagCardinality(book') = BagCardinality(book) + 1
                 /\ Len(attempts') = Len(attempts) + 1
                 /\ "order" \in sent']_vars

\* a tick that ran to its end with a BUY above the price in its snapshot,
\* which is still open
C20_Witness ==
    /\ status = "complete"
    /\ \E o \in BagToSet(open_orders_list) :
           /\ BagIn(o, book)
           /\ Stranded(o, current_price)
           /\ o.side = "BUY"

(***************************************************************************)
(* What a tick shares with the ticks before it.                            *)
(***************************************************************************)
\* C21: after start-up no step changes grid_levels; the snapshot of a tick
\* is what its own get_open_orders call gave (the open orders of the
\* exchange at that moment, or nothing), open_order_prices is made from that
\* snapshot alone, and neither changes while the tick goes through the
\* levels, whatever it places.
C21_LevelsReadOnlySnapshotFresh ==
    [][/\ pc # "start" => grid_levels' = grid_levels
       /\ pc' = "levels" =>
              /\ open_order_prices' =
                     OpenOrderPrices(BagToSet(open_orders_list'))
              /\ pc = "orders" => open_orders_list' \in {book, EmptyBag}
              /\ pc = "levels" => open_orders_list' = open_orders_list]_vars

\* a tick after an earlier one that ran to its end, going through the levels
\* with a snapshot that holds an order, after a placement of its own
C21_Witness ==
    /\ pc = "levels"
    /\ ref.stage = "inputs" /\ ref.later
    /\ open_orders_list # EmptyBag
    /\ placed_orders_this_cycle > 0
    /\ open_order_prices = OpenOrderPrices(BagToSet(open_orders_list))
    /\ Len(grid_levels) > 1

(***************************************************************************)
(* One order for a level and side.                                         *)
(***************************************************************************)
\* no two open orders of the same side and price
OnePerLevelAndSide(orders) ==
    \A o \in BagToSet(orders), b \in BagToSet(orders) :
        /\ CopiesIn(o, orders) = 1
        /\ (o.side = b.side /\ o.price = b.price) => o = b

\* C23: a step of a tick whose open-order fetch gave the open orders of the
\* exchange never adds an order of a side and price at which an order is
\* open; hence, while every fetch gives the open orders, at most one order
\* of the strategy is open for a level and side.
C23_OnePerLevelAndSide ==
    [][(fetched \in {"ok", "skipped"} /\ OnePerLevelAndSide(book))
           => OnePerLevelAndSide(book')]_vars

\* a later tick that read the open orders, found some of the earlier ones
\* open, placed the others, and came to the end of the levels
C23_Witness ==
    /\ pc = "levels" /\ idx > Len(grid_levels)
    /\ fetched = "ok"
    /\ ref.stage = "inputs" /\ ref.later
    /\ open_orders_list # EmptyBag
    /\ placed_orders_this_cycle > 0
    /\ BagCardinality(book) > 1
    /\ OnePerLevelAndSide(book)

(***************************************************************************)
(* The orders a tick asks for.                                             *)
(***************************************************************************)
\* a place_limit_order call for a BUY at a level below the price or a SELL
\* at a level above it, with the quantity ORDER_QTY_PER_GRID
OnItsSide(call, price, levels) ==
    /\ \/ call.side = "BUY" /\ call.price < price
       \/ call.side = "SELL" /\ call.price > price
    /\ \E j \in 1..Len(levels) : levels[j] = call.price
    /\ call.quantity = ORDER_QTY_PER_GRID

\* C24: every order a tick asks the exchange for is a BUY at a level
\* strictly below the price the tick read or a SELL at a level strictly
\* above it; its price is one of grid_levels and its quantity is
\* ORDER_QTY_PER_GRID.
C24_PlacedOnItsSide ==
    \A i \in 1..Len(attempts) :
        OnItsSide(attempts[i], current_price, grid_levels)

\* a tick that asked for a BUY and for a SELL
C24_Witness ==
    /\ Len(attempts) = 2
    /\ attempts[1].side = "SELL" /\ attempts[1].result = "ok"
    /\ attempts[2].side = "BUY" /\ attempts[2].result = "ok"
    /\ attempts[2].price < current_price
    /\ current_price < attempts[1].price

(***************************************************************************)
(* Coverage of a level by the orders of one side.                          *)
(***************************************************************************)
\* the book holds an order of the side at the price
RestsAt(level_price, side) ==
    \E o \in BagToSet(book) : o.side = side /\ o.price = level_price

\* C26: a level above the price that the snapshot covers with a BUY only
\* gets its SELL placement, and a level below the price that the snapshot
\* covers with a SELL only gets its BUY placement: an order of the other
\* side does not cover a level.
C26_CoveragePerSide ==
    \A j \in 1..Len(grid_levels) :
        /\ (/\ j < idx /\ grid_levels[j] > current_price
            /\ Covered(grid_levels[j], "BUY")
            /\ ~Covered(grid_levels[j], "SELL")) => PlacedOnce(j, "SELL")
        /\ (/\ j < idx /\ grid_levels[j] < current_price
            /\ Covered(grid_levels[j], "SELL")
            /\ ~Covered(grid_levels[j], "BUY")) => PlacedOnce(j, "BUY")

\* a tick placed a SELL at a level above the price where a BUY of an
\* earlier tick is open: both rest at the level
C26_Witness ==
    \E j \in 1..Len(grid_levels) :
        /\ j < idx /\ grid_levels[j] > current_price
        /\ Covered(grid_levels[j], "BUY")
        /\ PlacedOnce(j, "SELL")
        /\ \A i \in AttemptsAt(j) : attempts[i].result = "ok"
        /\ RestsAt(grid_levels[j], "BUY")
        /\ RestsAt(grid_levels[j], "SELL")

(***************************************************************************)
(* The ticks come to a grid that needs no order.                           *)
(***************************************************************************)
\* every level that is not at the price has an open order of its side
GridCovered(price) ==
    \A j \in 1..Len(grid_levels) :
        LevelSide(grid_levels[j], price) # "NONE" =>
            RestsAt(grid_levels[j], LevelSide(grid_levels[j], price))

\* C25: at a market whose price stays, with faithful snapshots, no fills and
\* placements that succeed at last, from some tick on every level that is
\* not at the price has an open order of its side and no tick asks for an
\* order any more.
C25_Converges == <>[](GridCovered(ref.price) /\ attempts = <<>>)

\* a tick that found the order of one level open, placed the order that an
\* earlier tick did not get placed at the other level, and so covered the grid
C25_Witness ==
    /\ ref.stage = "market"
    /\ pc = "levels" /\ idx > Len(grid_levels)
    /\ open_orders_list # EmptyBag
    /\ Len(attempts) = 1 /\ attempts[1].result = "ok"
    /\ BagCardinality(book) = 2
    /\ GridCovered(ref.price)

(***************************************************************************)
(* Properties of the wash-trading script.                                  *)
(***************************************************************************)
\* the filled flag of the order the script polls or has polled
FilledFlag(v) ==
    IF v.pc \in {"poll_buy", "buy_polled"} THEN v.buy_order_filled
    ELSE v.sell_order_filled

\* C22: at most max_poll_attempts status queries are made for an order; with
\* max_poll_attempts = 0 no query is made and no order counts as filled; when
\* the polling of an order is over, the order counts as filled exactly if a
\* query saw FILLED (the last query it made, be it the last one allowed).
C22_BoundedPolling ==
    /\ vol.polled <= vol.max_poll_attempts
    /\ vol.max_poll_attempts = 0 =>
           /\ vol.queries = 0
           /\ ~vol.buy_order_filled /\ ~vol.sell_order_filled
    /\ vol.pc \in {"buy_polled", "sell_polled"} =>
           (FilledFlag(vol) <=> vol.last = "FILLED")

\* the BUY was seen FILLED by the last query the loop allows, after a query
\* that saw it open
C22_Witness ==
    /\ vol.pc = "buy_polled"
    /\ vol.max_poll_attempts = MaxPoll
    /\ vol.polled = vol.max_poll_attempts
    /\ vol.last = "FILLED"
    /\ vol.buy_order_filled

\* the place_market_order calls of a cycle: first a BUY, then at most a SELL,
\* both for order_quantity
BuyThenSell(placed) ==
    /\ Len(placed) <= 2
    /\ \A k \in 1..Len(placed) :
           /\ placed[k].side = (IF k = 1 THEN "BUY" ELSE "SELL")
           /\ placed[k].quantity = order_quantity
           /\ placed[k].type = "MARKET"

\* C27: a cycle asks for a SELL only after a status query of its BUY saw
\* FILLED; at all times the SELL placements are at most as many as the BUYs
\* confirmed FILLED, and a cycle asks for at most one BUY and then at most
\* one SELL, each a market order for order_quantity.
C27_SellAfterFilledBuy ==
    /\ vol.sells <= vol.confirmed
    /\ vol.confirmed <= vol.buys
    /\ BuyThenSell(vol.placed)
    /\ (Len(vol.placed) = 2 \/ vol.pc \in {"sell", "poll_sell", "sell_polled"})
           => vol.buy_order_filled
    /\ vol.buys <= vol.iterations

\* the second cycle ends without a SELL, its BUY not seen FILLED, after a
\* first cycle that sold
C27_Witness ==
    /\ vol.pc = "next" /\ vol.i = 1
    /\ vol.buys = 2 /\ vol.confirmed = 1 /\ vol.sells = 1
    /\ Len(vol.placed) = 1
    /\ vol.polled = vol.max_poll_attempts
    /\ vol.last = "NEW"

\* C28: no status query is made for an order after a query that returned
\* FILLED, CANCELED, EXPIRED or REJECTED; a query that returned nothing or
\* another status uses up one attempt, leaves the flags alone and, while
\* attempts are left, is followed by the next query; the filled flag of an
\* order is set only by a query that returned FILLED.
C28_StopsAtTerminalStatus ==
    [][/\ vol'.queries # vol.queries =>
              vol.last \notin {"FILLED", "CANCELED", "EXPIRED", "REJECTED"}
       /\ (/\ vol'.queries # vol.queries
           /\ vol'.last \in {"none", "NEW", "PARTIALLY_FILLED"}) =>
              /\ vol'.attempt = vol.attempt + 1
              /\ vol'.buy_order_filled = vol.buy_order_filled
              /\ vol'.sell_order_filled = vol.sell_order_filled
              /\ vol'.attempt < vol.max_poll_attempts => vol'.pc = vol.pc
       /\ (\/ vol'.buy_order_filled /\ ~vol.buy_order_filled
           \/ vol'.sell_order_filled /\ ~vol.sell_order_filled) =>
              vol'.queries # vol.queries /\ vol'.last = "FILLED"]_vars

\* the polling of a BUY that ended at CANCELED with attempts left
C28_Witness ==
    /\ vol.pc = "buy_polled"
    /\ vol.last = "CANCELED"
    /\ vol.polled < vol.max_poll_attempts
    /\ ~vol.buy_order_filled

\* C29 (the wash-trading script): the script ends only by finishing, after
\* exactly iterations cycles; it asks for at most 2 * iterations orders and
\* makes at most 2 * iterations * max_poll_attempts status queries.
C29_RunsAllCycles ==
    /\ vol.pc \in {"finished", "crashed"} =>
           vol.pc = "finished" /\ vol.i = vol.iterations
    /\ vol.buys + vol.sells <= 2 * vol.iterations
    /\ vol.queries <= 2 * vol.iterations * vol.max_poll_attempts


(***************************************************************************)
(* Properties of the place-and-cancel script.                              *)
(***************************************************************************)
\* the cancel_order calls of the iteration for an order id
CancelsOf(b, id) == {k \in 1..Len(b.cancels) : b.cancels[k].id = id}

\* the orders of the iteration whose response had an orderId and the status
\* NEW or PARTIALLY_FILLED
Resting(b) ==
    {j \in 1..Len(b.placed) :
        b.placed[j].status \in {"NEW", "PARTIALLY_FILLED"}}

\* C30: every cancel_order call is for an order placed in the same iteration
\* whose response had an orderId and the status NEW or PARTIALLY_FILLED, no
\* order gets two calls, the BUY's comes before the SELL's, and when the
\* iteration is over every such order has had its call.
C30_CancelsWhatItPlaced ==
    /\ \A k \in 1..Len(bac.cancels) :
           \E j \in Resting(bac) :
               /\ bac.placed[j].id = bac.cancels[k].id
               /\ bac.placed[j].side = bac.cancels[k].side
    /\ \A j \in Resting(bac) :
           Cardinality(CancelsOf(bac, bac.placed[j].id)) <= 1
    /\ \A k \in 1..Len(bac.cancels) :
           bac.cancels[k].side = "BUY" => k = 1
    /\ bac.pc \in {"end", "finished", "crashed"} =>
           \A j \in Resting(bac) :
               Cardinality(CancelsOf(bac, bac.placed[j].id)) = 1



(***************************************************************************)
(* Properties of place_limit_order of the place-and-cancel script.         *)
(***************************************************************************)
\* 0 < bid < ask, both multiples of the tick
TickerInOrder(t) ==
    /\ 0 < t.bidPrice
    /\ t.bidPrice < t.askPrice
    /\ t.bidPrice % UnitsPerTick = 0
    /\ t.askPrice % UnitsPerTick = 0

\* the call made the signed request for an order
Submitted(o) == o.stage = "done" /\ o.order.call = "request"

\* the offset takes the price of the side to or across the other side
Crosses(in) ==
    \/ /\ Upper(in.side) = "BUY"
       /\ in.base_ticker.bidPrice + in.price_offset_ticks * UnitsPerTick
              >= in.base_ticker.askPrice
    \/ /\ Upper(in.side) = "SELL"
       /\ in.base_ticker.askPrice - in.price_offset_ticks * UnitsPerTick
              <= in.base_ticker.bidPrice

\* the best price of the side of the call: best bid of a BUY, best ask of a
\* SELL
BestOfSide(in) ==
    IF Upper(in.side) = "BUY" THEN in.base_ticker.bidPrice
    ELSE in.base_ticker.askPrice

\* C31: for a ticker with 0 < bid < ask on the ticks and any offset, a
\* submitted BUY has a price below the ask and a submitted SELL a price
\* above the bid, and an offset that crosses gives the best bid (BUY) or the
\* best ask (SELL); no order is submitted with a target price <= 0 or with
\* a side other than BUY or SELL.
C31_LimitPriceSafe ==
    Submitted(ord) =>
        /\ ord.order.target_price > 0
        /\ ord.order.side \in {"BUY", "SELL"}
        /\ ord.order.side = Upper(ord.input.side)
        /\ TickerInOrder(ord.input.base_ticker) =>
               /\ ord.order.side = "BUY" =>
                      ord.order.price < ord.input.base_ticker.askPrice
               /\ ord.order.side = "SELL" =>
                      ord.order.price > ord.input.base_ticker.bidPrice
               /\ Crosses(ord.input) =>
                      ord.order.price = BestOfSide(ord.input)

\* a BUY one tick above the bid of a one-tick spread was submitted
C31_Witness ==
    /\ Submitted(ord)
    /\ TickerInOrder(ord.input.base_ticker)
    /\ ord.order.side = "BUY"
    /\ ord.input.price_offset_ticks = 1
    /\ ord.input.base_ticker.askPrice
           = ord.input.base_ticker.bidPrice + UnitsPerTick
    /\ ord.order.price = ord.input.base_ticker.bidPrice

\* what the script has asked of the exchange about orders: the orders of
\* its last iteration with orders, its cancel_order calls and the number of
\* its get_open_orders calls
OrderTraffic(b) ==
    [next_id |-> b.next_id, placed |-> b.placed, cancels |-> b.cancels,
     queries |-> b.queries, buy_order_id |-> b.buy_order_id,
     sell_order_id |-> b.sell_order_id]

\* C32: an iteration whose get_book_ticker returns no ticker is over with
\* that: no order is placed, no open orders are asked for and no cancel is
\* sent in it, and it counts as one of the iterations.
C32_NoTickerSkipsIteration ==
    [][(bac.pc = "ticker" /\ bac'.ticker = "none") =>
           /\ bac'.pc = (IF bac.i + 1 < bac.iterations THEN "ticker"
                         ELSE "finished")
           /\ bac'.i = bac.i + 1
           /\ OrderTraffic(bac') = OrderTraffic(bac)]_vars

\* the script finished after an iteration with orders and a last one
\* without a ticker
C32_Witness ==
    /\ bac.pc = "finished"
    /\ bac.ticker = "none"
    /\ bac.i = bac.iterations
    /\ bac.i >= 2
    /\ Len(bac.placed) > 0
    /\ bac.queries = 1


====
